---- MODULE Spec2Model ----
(***************************************************************************)
(* ForecastOrder: the similarity store (ItemMapping), the identity         *)
(* resolver (ItemMapping.find_similar_items) and the frequency analyzer    *)
(* (DataProcessor.analyze_order_frequency).                                *)
(*                                                                         *)
(* Text is a sequence of one-character strings, so that strip(), lower(),  *)
(* isalnum(), slicing, concatenation and the fuzzy ratio are computed and   *)
(* not assumed.  A dict is a sequence of entries in insertion order, as    *)
(* Python dicts iterate.                                                   *)
(***************************************************************************)
EXTENDS Integers, Sequences, FiniteSets, TLC

VARIABLES mappings, file, failures, similar_items_map, dp_similar_items_map,
          progress, op, pre2, processed_data, frequency_data,
          article_delivery_times, seasonal_patterns, predictions, recommendations, now,
          autofind

vars == <<mappings, file, failures, similar_items_map, dp_similar_items_map,
          progress, op, pre2, processed_data, frequency_data,
          article_delivery_times, seasonal_patterns, predictions, recommendations, now,
          autofind>>

\* autofind is the editor's automatic search in progress: where the main
\* thread and the worker thread stand, the progress dialog, the callbacks
\* waiting in the event loop and the result dict shared by the two threads
\*
\* the state of the forecaster: DataProcessor.article_delivery_times, the
\* OrderAnalyzer's seasonal_patterns and predictions, the recommendations it
\* returned last, and the clock read by datetime.now(), in half days
forecastVars == <<article_delivery_times, seasonal_patterns, predictions, recommendations, now>>

\* OrderAnalyzer.__init__ and DataProcessor.__init__: nothing forecast yet
InitForecastVars ==
    /\ article_delivery_times = <<>>
    /\ seasonal_patterns = <<>>
    /\ predictions = <<>>
    /\ recommendations = <<>>
    /\ now = 0
    /\ autofind = [main |-> "idle"]

(***************************************************************************)
(* Text                                                                    *)
(***************************************************************************)
\* pandas' missing value: not a text, equal to nothing, recognised by pd.isna
NaN == <<"NaN">>

isna(x) == x = NaN

RECURSIVE SeqOfSet(_)
SeqOfSet(S) == IF S = {} THEN <<>>
               ELSE LET x == CHOOSE y \in S : TRUE IN <<x>> \o SeqOfSet(S \ {x})

Range(s) == {s[i] : i \in 1..Len(s)}

\* the sequence s without its i-th element (del s[i])
RemoveAt(s, i) == [j \in 1..(Len(s) - 1) |-> IF j < i THEN s[j] ELSE s[j + 1]]

isspace(c) == c = " "

isalnum(c) == c \in {"a", "b", "c", "x", "y", "A", "B", "1", "2", "3"}

lowerChar(c) == CASE c = "A" -> "a" [] c = "B" -> "b" [] OTHER -> c

\* str.lower()
lower(s) == [i \in 1..Len(s) |-> lowerChar(s[i])]

\* str.strip()
RECURSIVE lstrip(_)
lstrip(s) == IF s # <<>> /\ isspace(Head(s)) THEN lstrip(Tail(s)) ELSE s

RECURSIVE rstrip(_)
rstrip(s) == IF s # <<>> /\ isspace(s[Len(s)]) THEN rstrip(SubSeq(s, 1, Len(s) - 1)) ELSE s

strip(s) == rstrip(lstrip(s))

\* s[:n]
Prefix(s, n) == SubSeq(s, 1, IF Len(s) < n THEN Len(s) ELSE n)

\* str(n) for a natural number
RECURSIVE Str(_)
Str(n) == IF n < 10 THEN <<ToString(n)>> ELSE Str(n \div 10) \o <<ToString(n % 10)>>

\* length of the longest common subsequence
RECURSIVE LCS(_, _)
LCS(s, t) ==
    IF s = <<>> \/ t = <<>> THEN 0
    ELSE IF Head(s) = Head(t) THEN 1 + LCS(Tail(s), Tail(t))
    ELSE LET a == LCS(Tail(s), t)
             b == LCS(s, Tail(t))
         IN IF a >= b THEN a ELSE b

\* int(round(num / den)) for den > 0
intr(num, den) == (2 * num + den) \div (2 * den)

\* fuzz.ratio: 100 for equal texts, 0 when either is empty, else
\* 100 * 2 * matches / (len1 + len2) rounded to an integer
ratio(s, t) ==
    IF s = t THEN 100
    ELSE IF Len(s) = 0 \/ Len(t) = 0 THEN 0
    ELSE intr(200 * LCS(s, t), Len(s) + Len(t))

(***************************************************************************)
(* Dicts in insertion order                                                *)
(***************************************************************************)
Keys(m) == {m[i].id : i \in 1..Len(m)}

Has(m, id) == id \in Keys(m)

IndexOf(m, id) == CHOOSE i \in 1..Len(m) : m[i].id = id

Get(m, id) == m[IndexOf(m, id)]

\* m[id] = value: in place when the key exists, appended otherwise
Put(m, id, name, items) ==
    LET e == [id |-> id, name |-> name, items |-> items]
    IN IF Has(m, id) THEN [m EXCEPT ![IndexOf(m, id)] = e] ELSE Append(m, e)

\* del m[id]
Del(m, id) == RemoveAt(m, IndexOf(m, id))

Item(name, code) == [name |-> name, code |-> code]

(***************************************************************************)
(* Similarity store: persistence                                           *)
(***************************************************************************)
\* what a write of the store file can do: succeed, fail before the file is
\* opened (makedirs or open raises), or fail after open(..., 'w') truncated it
SaveOutcomes == {"ok", "fail", "partial"}

NoFile == [state |-> "missing", content |-> <<>>]

\* Dump with the display names left out (the id written in their place)
Dump_without_names(m) ==
    [i \in 1..Len(m) |->
        <<m[i].id, m[i].id,
          [j \in 1..Len(m[i].items) |-> <<m[i].items[j].name, m[i].items[j].code>>]>>]

\* json.dump: each group as id, display name and the list of (name, code)
Dump(m) ==
    [i \in 1..Len(m) |->
        <<m[i].id, m[i].name,
          [j \in 1..Len(m[i].items) |-> <<m[i].items[j].name, m[i].items[j].code>>]>>]

\* json.load
Load(content) ==
    [i \in 1..Len(content) |->
        [id |-> content[i][1], name |-> content[i][2],
         items |-> [j \in 1..Len(content[i][3]) |->
                       Item(content[i][3][j][1], content[i][3][j][2])]]]

\* save_mappings: the new file and the returned flag
save_mappings(m, f, outcome) ==
    CASE outcome = "ok" -> [file |-> [state |-> "ok", content |-> Dump(m)], ret |-> TRUE]
      [] outcome = "partial" -> [file |-> [state |-> "corrupt", content |-> <<>>], ret |-> FALSE]
      [] OTHER -> [file |-> f, ret |-> FALSE]

\* load_mappings: the store and the file after loading
load_mappings(f, outcome) ==
    CASE f.state = "ok" -> [mappings |-> Load(f.content), file |-> f]
      [] f.state = "missing" -> [mappings |-> <<>>, file |-> save_mappings(<<>>, f, outcome).file]
      [] OTHER -> [mappings |-> <<>>, file |-> f]

(***************************************************************************)
(* Similarity store: operations.  Each yields the store, the file, the     *)
(* returned value and whether a save was attempted.                        *)
(***************************************************************************)
Result(m, f, ret, saved) == [mappings |-> m, file |-> f, ret |-> ret, saved |-> saved]

HasItem(items, name, code) ==
    \E i \in 1..Len(items) : items[i].name = name /\ items[i].code = code

\* the (name, code) add_item_to_group stores for its arguments
StoredName(item_name) == IF isna(item_name) THEN <<>> ELSE item_name

StoredCode(item_name, item_code) ==
    IF isna(item_code) \/ strip(item_code) = <<>> THEN StoredName(item_name) ELSE item_code

GroupLabel == <<"G", "r", "u", "p", "p", "a", " ">>

\* add_item_to_group without the check for an existing identical member
add_item_to_group_unchecked(m, f, group_id, item_name, item_code, outcome) ==
    LET item == Item(StoredName(item_name), StoredCode(item_name, item_code))
        m2 == IF Has(m, group_id)
              THEN Put(m, group_id, Get(m, group_id).name, Append(Get(m, group_id).items, item))
              ELSE Put(m, group_id, GroupLabel \o Str(Len(m) + 1), <<item>>)
    IN Result(m2, save_mappings(m2, f, outcome).file, TRUE, TRUE)

add_item_to_group(m, f, group_id, item_name, item_code, outcome) ==
    LET name == StoredName(item_name)
        code == StoredCode(item_name, item_code)
        item == Item(name, code)
    IN IF ~Has(m, group_id)
       THEN LET m2 == Put(m, group_id, GroupLabel \o Str(Len(m) + 1), <<item>>)
            IN Result(m2, save_mappings(m2, f, outcome).file, TRUE, TRUE)
       ELSE IF HasItem(Get(m, group_id).items, name, code)
       THEN Result(m, f, FALSE, FALSE)
       ELSE LET g == Get(m, group_id)
                m2 == Put(m, group_id, g.name, Append(g.items, item))
            IN Result(m2, save_mappings(m2, f, outcome).file, TRUE, TRUE)

\* remove_item_from_group that keeps a group whose last member was removed
remove_item_from_group_keeping_empty(m, f, group_id, item_name, item_code, outcome) ==
    IF ~Has(m, group_id) THEN Result(m, f, FALSE, FALSE)
    ELSE LET g == Get(m, group_id)
         IN IF ~HasItem(g.items, item_name, item_code) THEN Result(m, f, FALSE, FALSE)
            ELSE LET i == CHOOSE k \in 1..Len(g.items) :
                              g.items[k].name = item_name /\ g.items[k].code = item_code
                     m2 == Put(m, group_id, g.name, RemoveAt(g.items, i))
                 IN Result(m2, save_mappings(m2, f, outcome).file, TRUE, TRUE)

remove_item_from_group(m, f, group_id, item_name, item_code, outcome) ==
    IF ~Has(m, group_id) THEN Result(m, f, FALSE, FALSE)
    ELSE LET g == Get(m, group_id)
         IN IF ~HasItem(g.items, item_name, item_code) THEN Result(m, f, FALSE, FALSE)
            ELSE LET i == CHOOSE k \in 1..Len(g.items) :
                              /\ g.items[k].name = item_name
                              /\ g.items[k].code = item_code
                              /\ \A l \in 1..(k - 1) :
                                    ~(g.items[l].name = item_name /\ g.items[l].code = item_code)
                     items == RemoveAt(g.items, i)
                     m2 == IF items = <<>> THEN Del(m, group_id)
                           ELSE Put(m, group_id, g.name, items)
                 IN Result(m2, save_mappings(m2, f, outcome).file, TRUE, TRUE)

rename_group(m, f, group_id, new_name, outcome) ==
    IF ~Has(m, group_id) THEN Result(m, f, FALSE, FALSE)
    ELSE LET m2 == Put(m, group_id, new_name, Get(m, group_id).items)
         IN Result(m2, save_mappings(m2, f, outcome).file, TRUE, TRUE)

\* the loop of merge_groups appending every source item, duplicates included
MergeItems_with_duplicates(source_items, target_items) == target_items \o source_items

\* the loop of merge_groups: target_items after appending the unique source items
RECURSIVE MergeItems(_, _)
MergeItems(source_items, target_items) ==
    IF source_items = <<>> THEN target_items
    ELSE LET item == Head(source_items)
         IN MergeItems(Tail(source_items),
                       IF HasItem(target_items, item.name, item.code) THEN target_items
                       ELSE Append(target_items, item))

merge_groups(m, f, source_group_id, target_group_id, outcome) ==
    IF ~Has(m, source_group_id) THEN Result(m, f, FALSE, FALSE)
    ELSE IF ~Has(m, target_group_id) THEN Result(m, f, FALSE, FALSE)
    ELSE LET t == Get(m, target_group_id)
             merged == MergeItems(Get(m, source_group_id).items, t.items)
             m2 == Del(Put(m, target_group_id, t.name, merged), source_group_id)
         IN Result(m2, save_mappings(m2, f, outcome).file, TRUE, TRUE)

get_group_for_item(m, item_name, item_code) ==
    IF \E i \in 1..Len(m) : HasItem(m[i].items, item_name, item_code)
    THEN <<m[CHOOSE i \in 1..Len(m) :
                /\ HasItem(m[i].items, item_name, item_code)
                /\ \A k \in 1..(i - 1) : ~HasItem(m[k].items, item_name, item_code)].id>>
    ELSE <<>>

\* MappingEditor._create_group with a non-empty name typed by the user
GroupIdPrefix == <<"g", "r", "o", "u", "p", "_">>

create_group(m, f, name, outcome) ==
    LET m2 == Put(m, GroupIdPrefix \o Str(Len(m) + 1), name, <<>>)
    IN Result(m2, save_mappings(m2, f, outcome).file, TRUE, TRUE)

\* MappingEditor._delete_group on the selected group, deletion confirmed
delete_group(m, f, current_group_id, outcome) ==
    IF Has(m, current_group_id)
    THEN LET m2 == Del(m, current_group_id)
         IN Result(m2, save_mappings(m2, f, outcome).file, TRUE, TRUE)
    ELSE Result(m, f, FALSE, FALSE)

(***************************************************************************)
(* Identity resolver: ItemMapping.find_similar_items                       *)
(***************************************************************************)
\* dicts keyed by a (name, code) tuple, as sequences of [item, group]
MapHas(d, k) == \E i \in 1..Len(d) : d[i].item = k

MapGet(d, k) == d[CHOOSE i \in 1..Len(d) : d[i].item = k].group

MapPut(d, k, v) ==
    IF MapHas(d, k)
    THEN [d EXCEPT ![CHOOSE i \in 1..Len(d) : d[i].item = k] = [item |-> k, group |-> v]]
    ELSE Append(d, [item |-> k, group |-> v])

\* item_to_group: every stored member mapped to the id of its group
RECURSIVE IndexItems(_, _, _)
IndexItems(items, group_id, d) ==
    IF items = <<>> THEN d
    ELSE IndexItems(Tail(items), group_id,
                    MapPut(d, <<Head(items).name, Head(items).code>>, group_id))

RECURSIVE BuildItemToGroup(_, _)
BuildItemToGroup(m, d) ==
    IF m = <<>> THEN d
    ELSE BuildItemToGroup(Tail(m), IndexItems(Head(m).items, Head(m).id, d))

\* a cell of the table as the text the resolver compares
Coerce(cell) == IF isna(cell) THEN <<>> ELSE cell

\* unique_items: the distinct coerced (name, code) pairs of the table
UniqueItems(data) == {<<Coerce(data[i].name), Coerce(data[i].code)>> : i \in 1..Len(data)}

\* the orders in which a set can be iterated
Orders(S) == {o \in [1..Cardinality(S) -> S] : \A i, j \in 1..Cardinality(S) : o[i] = o[j] => i = j}

\* _calculate_similarity of two tuples, times 10 (0.4 and 0.6 are 4 and 6)
similarity10(item1, item2) ==
    LET name1 == lower(item1[1])
        code1 == lower(item1[2])
        name2 == lower(item2[1])
        code2 == lower(item2[2])
        name_similarity == ratio(name1, name2)
    IN IF code1 # <<>> /\ code2 # <<>>
       THEN name_similarity * 4 + ratio(code1, code2) * 6
       ELSE name_similarity * 10

\* the known item of highest similarity among those reaching the threshold
FirstSimilar_best_match(item, item_to_group, similarity_threshold) ==
    LET hits == {i \in 1..Len(item_to_group) :
                    similarity10(item, item_to_group[i].item) >= 10 * similarity_threshold}
    IN IF hits = {} THEN <<>>
       ELSE <<item_to_group[CHOOSE i \in hits : \A j \in hits :
                  \/ similarity10(item, item_to_group[i].item)
                       > similarity10(item, item_to_group[j].item)
                  \/ /\ similarity10(item, item_to_group[i].item)
                          = similarity10(item, item_to_group[j].item)
                     /\ i <= j].group>>

\* the first known item whose similarity reaches the threshold, as <<group>>
FirstSimilar(item, item_to_group, similarity_threshold) ==
    LET hits == {i \in 1..Len(item_to_group) :
                    similarity10(item, item_to_group[i].item) >= 10 * similarity_threshold}
    IN IF hits = {} THEN <<>>
       ELSE <<item_to_group[CHOOSE i \in hits : \A j \in hits : i <= j].group>>

\* the first processed item with the same name or code, empty or not
FirstExact_plain_equality(item, processed) ==
    LET hits == {i \in 1..Len(processed) :
                    \/ item[1] = processed[i].item[1]
                    \/ item[2] = processed[i].item[2]}
    IN IF hits = {} THEN <<>>
       ELSE <<processed[CHOOSE i \in hits : \A j \in hits : i <= j].group>>

\* the first processed item with the same non-empty name or code, as <<group>>
FirstExact(item, processed) ==
    LET hits == {i \in 1..Len(processed) :
                    \/ item[1] # <<>> /\ item[1] = processed[i].item[1]
                    \/ item[2] # <<>> /\ item[2] = processed[i].item[2]}
    IN IF hits = {} THEN <<>>
       ELSE <<processed[CHOOSE i \in hits : \A j \in hits : i <= j].group>>

RECURSIVE AlnumOnly(_)
AlnumOnly(s) ==
    IF s = <<>> THEN <<>>
    ELSE (IF isalnum(Head(s)) THEN <<Head(s)>> ELSE <<>>) \o AlnumOnly(Tail(s))

ArtPrefix == <<"a", "r", "t", "_">>

NamePrefix == <<"n", "a", "m", "e", "_">>

NameIdLen == 10

\* the id of the group created for an unmatched, non-blank item
new_group_id(name, code) ==
    IF strip(code) # <<>> THEN ArtPrefix \o strip(code)
    ELSE NamePrefix \o Prefix(AlnumOnly(name), NameIdLen)

\* the loop body creating a group only for an item that has a code
ResolveItem_code_only(item, m, item_to_group, sim_map, similarity_threshold) ==
    IF MapHas(item_to_group, item)
    THEN MapPut(sim_map, item, MapGet(item_to_group, item))
    ELSE LET found == IF m # <<>>
                      THEN FirstSimilar(item, item_to_group, similarity_threshold)
                      ELSE FirstExact(item, sim_map)
         IN IF found # <<>> THEN MapPut(sim_map, item, found[1])
            ELSE IF strip(item[2]) # <<>>
            THEN MapPut(sim_map, item, new_group_id(item[1], item[2]))
            ELSE sim_map

\* one iteration of the loop body: similar_items_map after processing item
ResolveItem(item, m, item_to_group, sim_map, similarity_threshold) ==
    IF MapHas(item_to_group, item)
    THEN MapPut(sim_map, item, MapGet(item_to_group, item))
    ELSE LET found == IF m # <<>>
                      THEN FirstSimilar(item, item_to_group, similarity_threshold)
                      ELSE FirstExact(item, sim_map)
         IN IF found # <<>> THEN MapPut(sim_map, item, found[1])
            ELSE IF strip(item[1]) # <<>> \/ strip(item[2]) # <<>>
            THEN MapPut(sim_map, item, new_group_id(item[1], item[2]))
            ELSE sim_map

RECURSIVE ResolveLoop(_, _, _, _, _)
ResolveLoop(order, m, item_to_group, sim_map, similarity_threshold) ==
    IF order = <<>> THEN sim_map
    ELSE ResolveLoop(Tail(order), m, item_to_group,
                     ResolveItem(Head(order), m, item_to_group, sim_map, similarity_threshold),
                     similarity_threshold)

\* the loop when the body raises for the pairs in failing: the handler of
\* the loop logs the error and continues, the pair's assignment is not reached
RECURSIVE LoopWithFailure(_, _, _, _, _, _)
LoopWithFailure(order, failing, m, item_to_group, sim_map, similarity_threshold) ==
    IF order = <<>> THEN sim_map
    ELSE LoopWithFailure(Tail(order), failing, m, item_to_group,
                         IF Head(order) \in failing THEN sim_map
                         ELSE ResolveItem(Head(order), m, item_to_group, sim_map,
                                          similarity_threshold),
                         similarity_threshold)

\* the loop left at the first pair whose processing raises
ResolveWithFailure_aborting(order, failing, m, similarity_threshold) ==
    LET stops == {i \in 1..Len(order) : order[i] \in failing}
        done == IF stops = {} THEN Len(order)
                ELSE (CHOOSE i \in stops : \A j \in stops : i <= j) - 1
    IN LoopWithFailure(SubSeq(order, 1, done), {}, m, BuildItemToGroup(m, <<>>), <<>>,
                       similarity_threshold)

\* similar_items_map after the loop over order, the pairs in failing raising
ResolveWithFailure(order, failing, m, similarity_threshold) ==
    LoopWithFailure(order, failing, m, BuildItemToGroup(m, <<>>), <<>>, similarity_threshold)

ProgressEvery == 10

\* the percentages passed to progress_callback, in call order
ProgressLog(total_items) ==
    LET calls == {i \in 0..(total_items - 1) : i % ProgressEvery = 0}
    IN [k \in 1..Cardinality(calls) |-> ((k - 1) * ProgressEvery * 100) \div total_items]

\* similar_groups: group id -> the items assigned to it, in assignment order
RECURSIVE GroupsOf(_, _)
GroupsOf(sim_map, groups) ==
    IF sim_map = <<>> THEN groups
    ELSE LET e == Head(sim_map)
             old == IF \E i \in 1..Len(groups) : groups[i].id = e.group
                    THEN groups[CHOOSE i \in 1..Len(groups) : groups[i].id = e.group].items
                    ELSE <<>>
             new == [id |-> e.group, items |-> Append(old, e.item)]
         IN GroupsOf(Tail(sim_map),
                     IF \E i \in 1..Len(groups) : groups[i].id = e.group
                     THEN [groups EXCEPT ![CHOOSE i \in 1..Len(groups) : groups[i].id = e.group] = new]
                     ELSE Append(groups, new))

\* find_similar_items on the table data, its distinct pairs iterated in order
find_similar_items(m, data, order, similarity_threshold, with_callback) ==
    IF data = <<>> THEN [map |-> <<>>, groups |-> <<>>, progress |-> <<>>]
    ELSE LET sim_map == ResolveLoop(order, m, BuildItemToGroup(m, <<>>), <<>>, similarity_threshold)
         IN [map |-> sim_map,
             groups |-> GroupsOf(sim_map, <<>>),
             progress |-> IF with_callback THEN ProgressLog(Len(order)) ELSE <<>>]

(***************************************************************************)
(* ItemMapping.update_from_similar_items                                   *)
(***************************************************************************)
\* _compare_groups on two lists of member records
compare_groups(group1, group2) ==
    LET diff == Len(group1) - Len(group2)
        small == IF Len(group1) < Len(group2) THEN Len(group1) ELSE Len(group2)
        matches == Cardinality({i \in 1..Len(group1) :
                                   HasItem(group2, group1[i].name, group1[i].code)})
    IN IF diff > 2 \/ diff < -2 THEN FALSE ELSE 2 * matches >= small

GroupNameLen == 20

\* the display name given to a group built from items_list
group_name_of(items_list) ==
    LET coded == {i \in 1..Len(items_list) : items_list[i][2] # <<>>}
    IN IF coded # {}
       THEN GroupLabel \o items_list[CHOOSE i \in coded : \A j \in coded : i <= j][2]
       ELSE IF items_list # <<>> THEN GroupLabel \o Prefix(items_list[1][1], GroupNameLen)
       ELSE <<>>

\* the loop over similar_items: the store and the number of groups added
RECURSIVE UpdateLoop(_, _, _)
UpdateLoop(similar_items, m, added_groups) ==
    IF similar_items = <<>> THEN [mappings |-> m, added |-> added_groups]
    ELSE LET g == Head(similar_items)
             group_items == [i \in 1..Len(g.items) |-> Item(g.items[i][1], g.items[i][2])]
             exists == \E i \in 1..Len(m) : compare_groups(group_items, m[i].items)
         IN IF ~exists /\ group_items # <<>>
            THEN UpdateLoop(Tail(similar_items),
                            Put(m, g.id, group_name_of(g.items), group_items),
                            added_groups + 1)
            ELSE UpdateLoop(Tail(similar_items), m, added_groups)

update_from_similar_items(m, f, similar_items, outcome) ==
    LET r == UpdateLoop(similar_items, m, 0)
    IN IF r.added > 0
       THEN Result(r.mappings, save_mappings(r.mappings, f, outcome).file, r.added, TRUE)
       ELSE Result(r.mappings, f, r.added, FALSE)

(***************************************************************************)
(* Bounds and input domains                                                *)
(***************************************************************************)
MaxGroups == 2

MaxItems == 2

MaxRows == 2

MaxFailures == 1

GroupIdArgs == {ArtPrefix \o <<"x">>}

NameArgs == {<<"a">>}

CodeArgs == {<<>>, <<"x">>}

\* the outcomes a write can still have: failed writes are counted up to MaxFailures
Outcomes == IF failures < MaxFailures THEN SaveOutcomes ELSE {"ok"}

DisplayNames == {<<"n">>}

\* a row of the preprocessed ledger: name and code cells, request date, quantity
Row(name, code, date, qty) == [name |-> name, code |-> code, date |-> date, qty |-> qty]

\* a parsed request date, in half days, and the date a cell that does not parse gets
Timestamp(t) == [nat |-> FALSE, t |-> t]

NaT == [nat |-> TRUE, t |-> 0]

\* the ledgers loaded while the store is edited
StoreLedgers == {<<Row(<<"a">>, <<"x">>, Timestamp(0), 1)>>}

DefaultThreshold == 85

EditorThreshold == 80

WithinBounds(m) ==
    /\ Len(m) <= MaxGroups
    /\ \A i \in 1..Len(m) : Len(m[i].items) <= MaxItems

NoOp == [name |-> "init"]

(***************************************************************************)
(* Store actions                                                           *)
(***************************************************************************)
\* the common effect of a store operation with result r
Apply(r, opRecord, outcome) ==
    /\ WithinBounds(r.mappings)
    /\ mappings' = r.mappings
    /\ file' = r.file
    /\ op' = [opRecord EXCEPT !.ret = r.ret, !.saved = r.saved,
                              !.outcome = IF r.saved THEN outcome ELSE "none"]
    /\ failures' = IF r.saved /\ outcome # "ok" THEN failures + 1 ELSE failures

OpRecord(name, gid, gid2, item) ==
    [name |-> name, gid |-> gid, gid2 |-> gid2, item |-> item,
     ret |-> FALSE, saved |-> FALSE, outcome |-> "none"]

AddItemToGroup ==
    \E g \in GroupIdArgs \cup Keys(mappings), n \in NameArgs, c \in CodeArgs, o \in Outcomes :
        /\ Apply(add_item_to_group(mappings, file, g, n, c, o),
                 OpRecord("add", g, <<>>, <<n, c>>), o)
        /\ pre2' = IF Has(mappings, g) /\ add_item_to_group(mappings, file, g, n, c, o).ret
                   THEN <<mappings>>
                   ELSE <<>>
        /\ UNCHANGED <<similar_items_map, dp_similar_items_map, progress, processed_data, frequency_data, forecastVars,
                   autofind>>

RemoveItemFromGroup ==
    \E g \in GroupIdArgs \cup Keys(mappings), n \in NameArgs, c \in CodeArgs, o \in Outcomes :
        /\ Apply(remove_item_from_group(mappings, file, g, n, c, o),
                 OpRecord("remove", g, <<>>, <<n, c>>), o)
        /\ pre2' = IF op.name = "add" /\ op.gid = g /\ op.item = <<n, c>> THEN pre2 ELSE <<>>
        /\ UNCHANGED <<similar_items_map, dp_similar_items_map, progress, processed_data, frequency_data, forecastVars,
                   autofind>>

RenameGroup ==
    \E g \in GroupIdArgs \cup Keys(mappings), n \in DisplayNames, o \in Outcomes :
        /\ Apply(rename_group(mappings, file, g, n, o),
                 OpRecord("rename", g, <<>>, <<>>), o)
        /\ pre2' = <<>>
        /\ UNCHANGED <<similar_items_map, dp_similar_items_map, progress, processed_data, frequency_data, forecastVars,
                   autofind>>

MergeGroups ==
    \E s \in GroupIdArgs \cup Keys(mappings), t \in GroupIdArgs \cup Keys(mappings),
       o \in Outcomes :
        /\ Apply(merge_groups(mappings, file, s, t, o),
                 OpRecord("merge", s, t, <<>>), o)
        /\ pre2' = <<>>
        /\ UNCHANGED <<similar_items_map, dp_similar_items_map, progress, processed_data, frequency_data, forecastVars,
                   autofind>>

CreateGroup ==
    \E n \in DisplayNames, o \in Outcomes :
        /\ Apply(create_group(mappings, file, n, o),
                 OpRecord("create", GroupIdPrefix \o Str(Len(mappings) + 1), <<>>, <<>>), o)
        /\ pre2' = <<>>
        /\ UNCHANGED <<similar_items_map, dp_similar_items_map, progress, processed_data, frequency_data, forecastVars,
                   autofind>>

DeleteGroup ==
    \E g \in Keys(mappings), o \in Outcomes :
        /\ Apply(delete_group(mappings, file, g, o),
                 OpRecord("delete", g, <<>>, <<>>), o)
        /\ pre2' = <<>>
        /\ UNCHANGED <<similar_items_map, dp_similar_items_map, progress, processed_data, frequency_data, forecastVars,
                   autofind>>

\* MappingEditor._auto_find_mappings: the search on the loaded ledger, then,
\* when it found groups and the user confirms, update_from_similar_items
AutoFindMappings ==
    \E confirm \in BOOLEAN, o \in Outcomes :
      \E order \in Orders(UniqueItems(processed_data)) :
        LET found == find_similar_items(mappings, processed_data, order, EditorThreshold, TRUE)
            update == found.groups # <<>> /\ confirm
        IN /\ Apply(IF update
                    THEN update_from_similar_items(mappings, file, found.groups, o)
                    ELSE Result(mappings, file, 0, FALSE),
                    OpRecord(IF update THEN "update" ELSE "search", <<>>, <<>>, <<>>), o)
           /\ similar_items_map' = found.map
           /\ progress' = found.progress
           /\ pre2' = <<>>
           /\ UNCHANGED <<dp_similar_items_map, processed_data, frequency_data, forecastVars, autofind>>

\* the program is started again: a new ItemMapping loads the store file
Restart ==
    \E o \in Outcomes :
        LET r == load_mappings(file, o)
        IN /\ mappings' = r.mappings
           /\ file' = r.file
           /\ op' = [OpRecord("load", <<>>, <<>>, <<>>) EXCEPT
                        !.saved = (file.state = "missing"),
                        !.outcome = IF file.state = "missing" THEN o ELSE "none"]
           /\ failures' = IF file.state = "missing" /\ o # "ok" THEN failures + 1 ELSE failures
           /\ similar_items_map' = <<>>
           /\ progress' = <<>>
           /\ pre2' = <<>>
           /\ UNCHANGED <<dp_similar_items_map, processed_data, frequency_data, forecastVars, autofind>>

InitStore ==
    /\ \E o \in SaveOutcomes :
          /\ mappings = load_mappings(NoFile, o).mappings
          /\ file = load_mappings(NoFile, o).file
          /\ failures = IF o = "ok" THEN 0 ELSE 1
    /\ similar_items_map = <<>>
    /\ dp_similar_items_map = <<>>
    /\ progress = <<>>
    /\ op = NoOp
    /\ pre2 = <<>>
    /\ processed_data \in StoreLedgers
    /\ frequency_data = <<>>
    /\ InitForecastVars

Next ==
    \/ AddItemToGroup
    \/ RemoveItemFromGroup
    \/ RenameGroup
    \/ MergeGroups
    \/ CreateGroup
    \/ DeleteGroup
    \/ AutoFindMappings
    \/ Restart

Spec == InitStore /\ [][Next]_vars

(***************************************************************************)
(* The resolver run from the main window                                   *)
(***************************************************************************)
\* the ledgers the resolver is run on: up to MaxRows distinct (name, code) rows
ResolverRows ==
    {Row(n, c, Timestamp(0), 1) : n \in {NaN, <<"a">>, <<"a", "b">>}, c \in {NaN, <<"x">>, <<"y">>}}

ResolverLedgers == {SeqOfSet(t) : t \in {u \in SUBSET ResolverRows : Cardinality(u) <= MaxRows}}

\* DataProcessor.find_similar_items: nothing is done for an empty ledger,
\* otherwise the store's resolver runs and its map is kept by both objects
FindSimilarItems ==
    \E cb \in BOOLEAN :
      \E order \in Orders(UniqueItems(processed_data)) :
        LET found == find_similar_items(mappings, processed_data, order, DefaultThreshold, cb)
        IN /\ similar_items_map' = IF processed_data = <<>> THEN similar_items_map ELSE found.map
           /\ dp_similar_items_map' = IF processed_data = <<>> THEN dp_similar_items_map ELSE found.map
           /\ progress' = found.progress
           /\ op' = [name |-> "find", cb |-> cb, ret |-> found.groups,
                     saved |-> FALSE, outcome |-> "none"]
           /\ pre2' = <<>>
           /\ UNCHANGED <<mappings, file, failures, processed_data, frequency_data, forecastVars, autofind>>

\* the same run when processing one of the distinct pairs raises an exception
FindSimilarItemsWithFailure ==
    /\ processed_data # <<>>
    /\ \E order \in Orders(UniqueItems(processed_data)) :
         \E failed \in UniqueItems(processed_data) :
           LET sim_map == ResolveWithFailure(order, {failed}, mappings, DefaultThreshold)
           IN /\ similar_items_map' = sim_map
              /\ dp_similar_items_map' = sim_map
              /\ progress' = <<>>
              /\ op' = [name |-> "find_failing", failed |-> failed, cb |-> FALSE,
                        ret |-> GroupsOf(sim_map, <<>>), saved |-> FALSE, outcome |-> "none"]
              /\ pre2' = <<>>
              /\ UNCHANGED <<mappings, file, failures, processed_data, frequency_data, forecastVars, autofind>>

InitResolver ==
    /\ \E o \in SaveOutcomes :
          /\ mappings = load_mappings(NoFile, o).mappings
          /\ file = load_mappings(NoFile, o).file
          /\ failures = IF o = "ok" THEN 0 ELSE 1
    /\ similar_items_map = <<>>
    /\ dp_similar_items_map = <<>>
    /\ progress = <<>>
    /\ op = NoOp
    /\ pre2 = <<>>
    /\ processed_data \in ResolverLedgers
    /\ frequency_data = <<>>
    /\ InitForecastVars

NextResolver ==
    \/ AddItemToGroup
    \/ FindSimilarItems
    \/ FindSimilarItemsWithFailure

SpecResolver == InitResolver /\ [][NextResolver]_vars

(***************************************************************************)
(* Frequency analyzer: DataProcessor.analyze_order_frequency               *)
(***************************************************************************)
\* a number that may be NaN, as the quotient num / den
Rational(num, den) == [nan |-> FALSE, num |-> num, den |-> den]

NaNValue == [nan |-> TRUE, num |-> 0, den |-> 1]

HalfDaysPerDay == 2

\* (later - earlier).days for two request dates; NaN when either is NaT
DaysBetween(earlier, later) ==
    IF earlier.nat \/ later.nat THEN NaNValue
    ELSE Rational((later.t - earlier.t) \div HalfDaysPerDay, 1)

\* the rows of the ledger whose name and code cells equal the item's texts
\* (a missing cell equals nothing), for every item of the group in turn
RECURSIVE RowsOfItems(_, _)
RowsOfItems(data, items) ==
    IF items = <<>> THEN <<>>
    ELSE LET item == Head(items)
             Matches(row) == /\ ~isna(row.name)
                             /\ ~isna(row.code)
                             /\ row.name = item[1]
                             /\ row.code = item[2]
         IN SelectSeq(data, Matches) \o RowsOfItems(data, Tail(items))

\* a set of numbers in ascending order
RECURSIVE Ascending(_)
Ascending(S) ==
    IF S = {} THEN <<>>
    ELSE LET least == CHOOSE x \in S : \A y \in S : x <= y
         IN <<least>> \o Ascending(S \ {least})

\* sort_values(by=date) then unique(): the parsed dates ascending, NaT last
UniqueDates(group_data) ==
    LET parsed == {group_data[i].date.t : i \in {j \in 1..Len(group_data) : ~group_data[j].date.nat}}
        sorted == Ascending(parsed)
    IN [i \in 1..Len(sorted) |-> Timestamp(sorted[i])]
       \o (IF \E i \in 1..Len(group_data) : group_data[i].date.nat THEN <<NaT>> ELSE <<>>)

RECURSIVE SumQty(_)
SumQty(rows) == IF rows = <<>> THEN 0 ELSE Head(rows).qty + SumQty(Tail(rows))

RECURSIVE SumNum(_)
SumNum(values) == IF values = <<>> THEN 0 ELSE Head(values).num + SumNum(Tail(values))

AnyNaN(values) == \E i \in 1..Len(values) : values[i].nan

\* the first interval taken for the mean of the intervals
Mean_first_interval(values) ==
    IF AnyNaN(values) THEN NaNValue ELSE Rational(values[1].num, 1)

\* np.mean, np.median, np.min and np.max of the intervals
Mean(values) == IF AnyNaN(values) THEN NaNValue ELSE Rational(SumNum(values), Len(values))

Median(values) ==
    IF AnyNaN(values) THEN NaNValue
    ELSE LET n == Len(values)
             byRank == [k \in 1..n |->
                          CHOOSE v \in {values[i].num : i \in 1..n} :
                             /\ Cardinality({i \in 1..n : values[i].num < v}) < k
                             /\ Cardinality({i \in 1..n : values[i].num <= v}) >= k]
         IN IF n % 2 = 1 THEN Rational(byRank[(n + 1) \div 2], 1)
            ELSE Rational(byRank[n \div 2] + byRank[n \div 2 + 1], 2)

Least(values) ==
    IF AnyNaN(values) THEN NaNValue
    ELSE Rational(CHOOSE v \in {values[i].num : i \in 1..Len(values)} :
                     \A i \in 1..Len(values) : v <= values[i].num, 1)

Greatest(values) ==
    IF AnyNaN(values) THEN NaNValue
    ELSE Rational(CHOOSE v \in {values[i].num : i \in 1..Len(values)} :
                     \A i \in 1..Len(values) : v >= values[i].num, 1)

\* the frequency record of one group, as <<record>>, or <<>> when it has none
FrequencyRecord(data, group) ==
    LET group_data == RowsOfItems(data, group.items)
        dates == UniqueDates(group_data)
        intervals == [i \in 1..(Len(dates) - 1) |-> DaysBetween(dates[i], dates[i + 1])]
        total_ordered == SumQty(group_data)
        total_period == DaysBetween(dates[1], dates[Len(dates)])
    IN IF group_data = <<>> \/ intervals = <<>> THEN <<>>
       ELSE <<[group_id |-> group.id,
               items |-> group.items,
               avg_interval_days |-> Mean(intervals),
               median_interval_days |-> Median(intervals),
               min_interval_days |-> Least(intervals),
               max_interval_days |-> Greatest(intervals),
               total_ordered |-> total_ordered,
               daily_consumption |-> IF ~total_period.nan /\ total_period.num > 0
                                     THEN Rational(total_ordered, total_period.num)
                                     ELSE Rational(0, 1),
               order_dates |-> dates,
               order_intervals |-> intervals]>>

RECURSIVE FrequencyRecords(_, _)
FrequencyRecords(data, groups) ==
    IF groups = <<>> THEN <<>>
    ELSE FrequencyRecord(data, Head(groups)) \o FrequencyRecords(data, Tail(groups))

\* the percentages passed to progress_callback by the analyzer
AnalyzeProgress(total_groups) ==
    <<10>> \o [k \in 1..total_groups |-> 10 + (80 * (k - 1)) \div total_groups] \o <<95, 100>>

analyze_order_frequency(data, sim_map, with_callback) ==
    [frequency |-> FrequencyRecords(data, GroupsOf(sim_map, <<>>)),
     progress |-> IF with_callback THEN AnalyzeProgress(Len(GroupsOf(sim_map, <<>>))) ELSE <<>>]

MaxLedgerRows == 3

\* the rows of the ledgers the analyzer is run on, in a fixed enumeration
FreqRows ==
    SeqOfSet({Row(<<"a">>, c, d, q) :
                 c \in {NaN, <<"x">>},
                 d \in {Timestamp(0), Timestamp(1), Timestamp(3), NaT},
                 q \in {1, 2}})

\* ledgers of up to MaxLedgerRows rows, one for each multiset of rows
FreqLedgers ==
    UNION {{[i \in 1..n |-> FreqRows[ix[i]]] :
               ix \in {f \in [1..n -> 1..Len(FreqRows)] : \A i \in 1..(n - 1) : f[i] <= f[i + 1]}} :
           n \in 1..MaxLedgerRows}

AnalyzeOrderFrequency ==
    \E cb \in BOOLEAN :
        LET r == analyze_order_frequency(processed_data, dp_similar_items_map, cb)
        IN /\ frequency_data' = r.frequency
           /\ progress' = r.progress
           /\ op' = [name |-> "analyze", cb |-> cb, ret |-> Len(r.frequency),
                     saved |-> FALSE, outcome |-> "none"]
           /\ pre2' = <<>>
           /\ UNCHANGED <<mappings, file, failures, similar_items_map, dp_similar_items_map,
                          processed_data, forecastVars, autofind>>

InitFreq ==
    /\ mappings = <<>>
    /\ file = load_mappings(NoFile, "ok").file
    /\ failures = 0
    /\ similar_items_map = <<>>
    /\ dp_similar_items_map = <<>>
    /\ progress = <<>>
    /\ op = NoOp
    /\ pre2 = <<>>
    /\ processed_data \in FreqLedgers
    /\ frequency_data = <<>>
    /\ InitForecastVars

NextFreq ==
    \/ FindSimilarItems
    \/ AnalyzeOrderFrequency

SpecFreq == InitFreq /\ [][NextFreq]_vars

(***************************************************************************)
(* The resolver run by the editor's search thread with a chosen threshold  *)
(***************************************************************************)
MaxMatchRows == 3

\* thresholds the editor's dialog accepts (any integer 0..100): its low
\* setting and the resolver's default
MatchThresholds == {50, DefaultThreshold}

MatchRows ==
    {Row(n, c, Timestamp(0), 1) :
        n \in {NaN, <<"a">>, <<"a", "b">>, <<"a", " ", "b">>},
        c \in {NaN, <<"x">>, <<"y">>}}

MatchLedgers ==
    {SeqOfSet(t) : t \in {u \in SUBSET MatchRows : Cardinality(u) \in 1..MaxMatchRows}}

\* the store after a sequence of successful add_item_to_group calls
RECURSIVE StoreAfterAdds(_, _)
StoreAfterAdds(m, adds) ==
    IF adds = <<>> THEN m
    ELSE StoreAfterAdds(
             add_item_to_group(m, NoFile, Head(adds)[1], Head(adds)[2], Head(adds)[3], "ok").mappings,
             Tail(adds))

\* stores the search runs against: empty, two groups keyed by name, two
\* groups keyed by code, and two groups that both hold the pair (a, x)
MatchStores ==
    LET a == <<"a">>
        ab == <<"a", "b">>
        x == <<"x">>
        y == <<"y">>
    IN {<<>>,
        StoreAfterAdds(<<>>, <<<<ArtPrefix \o a, a, <<>>>>, <<ArtPrefix \o ab, ab, <<>>>>>>),
        StoreAfterAdds(<<>>, <<<<ArtPrefix \o x, a, x>>, <<ArtPrefix \o y, ab, y>>>>),
        StoreAfterAdds(<<>>, <<<<ArtPrefix \o x, a, x>>, <<ArtPrefix \o y, a, x>>,
                               <<ArtPrefix \o y, ab, y>>>>)}

\* search_thread: ItemMapping.find_similar_items on the loaded ledger with
\* the threshold asked of the user and the dialog's progress callback
SearchThread ==
    \E threshold \in MatchThresholds :
      \E order \in Orders(UniqueItems(processed_data)) :
        LET found == find_similar_items(mappings, processed_data, order, threshold, TRUE)
        IN /\ similar_items_map' = found.map
           /\ progress' = found.progress
           /\ op' = [name |-> "resolve", threshold |-> threshold, order |-> order,
                     ret |-> found.groups, saved |-> FALSE, outcome |-> "none"]
           /\ pre2' = <<>>
           /\ UNCHANGED <<mappings, file, failures, dp_similar_items_map, processed_data,
                          frequency_data, forecastVars, autofind>>

InitMatch ==
    /\ mappings \in MatchStores
    /\ file = save_mappings(mappings, NoFile, "ok").file
    /\ failures = 0
    /\ similar_items_map = <<>>
    /\ dp_similar_items_map = <<>>
    /\ progress = <<>>
    /\ op = NoOp
    /\ pre2 = <<>>
    /\ processed_data \in MatchLedgers
    /\ frequency_data = <<>>
    /\ InitForecastVars

NextMatch == SearchThread

SpecMatch == InitMatch /\ [][NextMatch]_vars

(***************************************************************************)
(* The editor's automatic search: MappingEditor._auto_find_mappings with   *)
(* its worker thread and its progress dialog                               *)
(***************************************************************************)
\* the variables the threads of the search leave alone
searchFrame == <<dp_similar_items_map, processed_data, frequency_data, forecastVars>>

\* the handler up to wait_window: the threshold is asked, the progress
\* dialog is created, result is {"similar_items": None, "error": None}
\* (None as <<>>, a value v as <<v>>) and the worker thread is started
StartAutoFind ==
    /\ autofind.main = "idle"
    /\ \E threshold \in MatchThresholds :
          autofind' = [main |-> "waiting", dialog |-> "open", worker |-> "running",
                       close_scheduled |-> FALSE, threshold |-> threshold,
                       similar_items |-> <<>>, returned_at |-> "running"]
    /\ op' = [name |-> "auto_find_started"]
    /\ pre2' = <<>>
    /\ UNCHANGED <<mappings, file, failures, similar_items_map, progress, searchFrame>>

\* search_thread, the try block: find_similar_items runs and its return
\* value is stored in result; it catches its own exceptions, so that the
\* except branch storing an error is not taken
SearchThreadStoresResult ==
    /\ autofind.main # "idle"
    /\ autofind.worker = "running"
    /\ \E order \in Orders(UniqueItems(processed_data)) :
          LET found == find_similar_items(mappings, processed_data, order,
                                          autofind.threshold, TRUE)
          IN /\ similar_items_map' = found.map
             /\ progress' = IF autofind.dialog = "open" THEN found.progress ELSE progress
             /\ autofind' = [autofind EXCEPT !.worker = "stored",
                                             !.similar_items = <<found.groups>>]
    /\ op' = [name |-> "search_thread"]
    /\ pre2' = <<>>
    /\ UNCHANGED <<mappings, file, failures, searchFrame>>

\* search_thread, the finally block: the closing of the dialog is handed to
\* the event loop with after(0, ...), and the thread ends
SearchThreadSchedulesClose ==
    /\ autofind.main # "idle"
    /\ autofind.worker = "stored"
    /\ autofind' = [autofind EXCEPT !.worker = "done", !.close_scheduled = TRUE]
    /\ UNCHANGED <<mappings, file, failures, similar_items_map, progress, op, pre2, searchFrame>>

\* the event loop runs the scheduled _close_progress_dialog: the dialog is
\* destroyed, an error for a dialog already destroyed is ignored
CloseProgressDialog ==
    /\ autofind.main # "idle"
    /\ autofind.close_scheduled
    /\ autofind' = [autofind EXCEPT !.close_scheduled = FALSE, !.dialog = "destroyed"]
    /\ UNCHANGED <<mappings, file, failures, similar_items_map, progress, op, pre2, searchFrame>>

\* the user closes the progress dialog with the button of its window: the
\* dialog sets no handler for it, so the window is destroyed
UserClosesDialog ==
    /\ autofind.main = "waiting"
    /\ autofind.dialog = "open"
    /\ autofind' = [autofind EXCEPT !.dialog = "destroyed"]
    /\ UNCHANGED <<mappings, file, failures, similar_items_map, progress, op, pre2, searchFrame>>

\* wait_window returns once the dialog is destroyed and the handler runs to
\* its end: it reads result, and when groups were found and the user
\* confirms, update_from_similar_items adds them to the store
CheckResults ==
    /\ autofind.main = "waiting"
    /\ autofind.dialog = "destroyed"
    /\ \E confirm \in BOOLEAN, o \in Outcomes :
          LET similar_items == IF autofind.similar_items = <<>> THEN <<>>
                               ELSE autofind.similar_items[1]
              update == similar_items # <<>> /\ confirm
              r == IF update THEN update_from_similar_items(mappings, file, similar_items, o)
                   ELSE Result(mappings, file, 0, FALSE)
          IN /\ mappings' = r.mappings
             /\ file' = r.file
             /\ failures' = IF r.saved /\ o # "ok" THEN failures + 1 ELSE failures
             /\ op' = [name |-> IF update THEN "auto_find_update" ELSE "auto_find_nothing",
                       ret |-> r.ret]
    /\ autofind' = [autofind EXCEPT !.main = "finished", !.returned_at = autofind.worker]
    /\ pre2' = <<>>
    /\ UNCHANGED <<similar_items_map, progress, searchFrame>>

\* the editor opened on a store and a processed ledger of up to MaxRows rows
InitAutoFind ==
    /\ InitMatch
    /\ Len(processed_data) <= MaxRows

NextAutoFind ==
    \/ StartAutoFind
    \/ SearchThreadStoresResult
    \/ SearchThreadSchedulesClose
    \/ CloseProgressDialog
    \/ UserClosesDialog
    \/ CheckResults

SpecAutoFind == InitAutoFind /\ [][NextAutoFind]_vars

(***************************************************************************)
(* Calendar and rounding                                                   *)
(***************************************************************************)
\* the calendar of datetime: the days of month m of year y
DaysInMonth(y, m) ==
    LET leap == (y % 4 = 0 /\ y % 100 # 0) \/ y % 400 = 0
    IN CASE m = 2 -> IF leap THEN 29 ELSE 28
         [] m \in {4, 6, 9, 11} -> 30
         [] OTHER -> 31

\* the days from 2024-01-01 to the first day of month m of year y
RECURSIVE DaysBefore(_, _)
DaysBefore(y, m) ==
    IF y <= 2024 /\ m = 1 THEN 0
    ELSE IF m = 1 THEN DaysBefore(y - 1, 12) + DaysInMonth(y - 1, 12)
    ELSE DaysBefore(y, m - 1) + DaysInMonth(y, m - 1)

\* the timestamp of the date y-m-d at 00:00
Date(y, m, d) ==
    Timestamp(HalfDaysPerDay * (DaysBefore(y, m) + d - 1))

\* date.month of a timestamp
MonthOf(t) ==
    LET day == t \div HalfDaysPerDay
    IN CHOOSE m \in 1..12 : \E y \in 2024..2026 :
          LET first == DaysBefore(y, m)
          IN first <= day /\ day < first + DaysInMonth(y, m)

\* date + timedelta(days=n)
PlusDays(t, n) == t + n * HalfDaysPerDay

\* round(num / den) for num >= 0 and den > 0: to the nearest integer, a tie
\* to the even one
RoundHalfEven(num, den) ==
    LET q == num \div den
        r == num % den
    IN IF 2 * r < den THEN q
       ELSE IF 2 * r > den THEN q + 1
       ELSE IF q % 2 = 0 THEN q ELSE q + 1

\* a quantity after round(x, 2) is kept as its number of hundredths
Hundredths == 100

\* round(num / den, 2), in hundredths
Round2(num, den) == RoundHalfEven(Hundredths * num, den)

\* the quotient rounded down
Ceil_rounds_down(value) == value.num \div value.den

\* math.ceil of a non-negative quotient
Ceil(value) == (value.num + value.den - 1) \div value.den

\* ledger quantities are counted in parts of a unit, so that a fractional
\* quantity can be written
QtyPerUnit == 2

(***************************************************************************)
(* Base forecast: DataProcessor.predict_future_orders                      *)
(***************************************************************************)
\* the dates the while loop visits: from next_date on, step days apart,
\* until one is not before forecast_end
RECURSIVE LoopDates(_, _, _)
LoopDates(next_date, step, forecast_end) ==
    IF ~(next_date < forecast_end) THEN <<>>
    ELSE <<PlusDays(next_date, step)>> \o LoopDates(PlusDays(next_date, step), step, forecast_end)

\* the loop without the test that a date is after today
ForecastDates_without_today_check(next_date, step, today, forecast_end, estimated_quantity) ==
    LET visited == SelectSeq(LoopDates(next_date, step, forecast_end),
                             LAMBDA d : d <= forecast_end)
    IN [i \in 1..Len(visited) |->
           [date |-> visited[i], estimated_quantity |-> estimated_quantity]]

\* forecast_dates: the visited dates that are after today and not after
\* forecast_end, each with the estimated quantity
ForecastDates(next_date, step, today, forecast_end, estimated_quantity) ==
    LET visited == SelectSeq(LoopDates(next_date, step, forecast_end),
                             LAMBDA d : d > today /\ d <= forecast_end)
    IN [i \in 1..Len(visited) |->
           [date |-> visited[i], estimated_quantity |-> estimated_quantity]]

\* the record is skipped: no interval or no consumption to forecast from
SkipsRecord(rec) ==
    \/ rec.avg_interval_days.nan
    \/ rec.avg_interval_days.num <= 0
    \/ rec.daily_consumption.nan
    \/ rec.daily_consumption.num <= 0

\* int(avg_interval)
IntervalStep(rec) == rec.avg_interval_days.num \div rec.avg_interval_days.den

\* the loop of a record never ends: it adds timedelta(days=0) for ever
NeverEnds(rec, forecast_end) ==
    /\ ~SkipsRecord(rec)
    /\ IntervalStep(rec) = 0
    /\ rec.order_dates[Len(rec.order_dates)].t < forecast_end

\* one row of the base forecast, as <<row>>, or <<>> when there is none
BasePrediction(rec, today, forecast_end) ==
    IF SkipsRecord(rec) THEN <<>>
    ELSE LET last_order_date == rec.order_dates[Len(rec.order_dates)].t
             \* round(daily_consumption * avg_interval, 2), in hundredths of a unit
             estimated_quantity ==
                 Round2(rec.daily_consumption.num * rec.avg_interval_days.num,
                        rec.daily_consumption.den * rec.avg_interval_days.den * QtyPerUnit)
             forecast_dates == ForecastDates(last_order_date, IntervalStep(rec), today,
                                             forecast_end, estimated_quantity)
         IN IF forecast_dates = <<>> THEN <<>>
            ELSE <<[group_id |-> rec.group_id,
                    items |-> rec.items,
                    avg_interval_days |-> rec.avg_interval_days,
                    daily_consumption |-> rec.daily_consumption,
                    last_order_date |-> last_order_date,
                    forecast_dates |-> forecast_dates]>>

RECURSIVE BasePredictions(_, _, _)
BasePredictions(frequency, today, forecast_end) ==
    IF frequency = <<>> THEN <<>>
    ELSE BasePrediction(Head(frequency), today, forecast_end)
         \o BasePredictions(Tail(frequency), today, forecast_end)

\* predict_future_orders at the time today: the rows, or no return at all
predict_future_orders(frequency, prediction_days, today) ==
    LET forecast_end == PlusDays(today, prediction_days)
        hung == \E k \in 1..Len(frequency) : NeverEnds(frequency[k], forecast_end)
    IN [hung |-> hung,
        predictions |-> IF hung THEN <<>> ELSE BasePredictions(frequency, today, forecast_end)]

(***************************************************************************)
(* Seasonal patterns: OrderAnalyzer.detect_seasonal_patterns               *)
(***************************************************************************)
\* a group needs this many request dates to get a pattern
MinSeasonalDates == 4

\* sum(month_counts.values())
MonthlyTotal(monthly) ==
    monthly[1] + monthly[2] + monthly[3] + monthly[4] + monthly[5] + monthly[6]
    + monthly[7] + monthly[8] + monthly[9] + monthly[10] + monthly[11] + monthly[12]

\* the pattern stored for one record
SeasonalPattern(rec) ==
    LET \* months.count(m): the parsed dates of the record in month m
        monthly == [m \in 1..12 |->
                      Cardinality({i \in 1..Len(rec.order_dates) :
                                      /\ ~rec.order_dates[i].nat
                                      /\ MonthOf(rec.order_dates[i].t) = m})]
        total == MonthlyTotal(monthly)
        quarterly == [q \in 1..4 |-> monthly[3 * q - 2] + monthly[3 * q - 1] + monthly[3 * q]]
    IN [monthly |-> monthly,
        high_activity_months |-> Ascending({m \in 1..12 : 12 * monthly[m] > total}),
        quarterly |-> quarterly,
        high_activity_quarters |-> Ascending({q \in 1..4 : 4 * quarterly[q] > total})]

\* dicts keyed by a group id, as sequences of [id, pattern]
PatternsHas(patterns, group_id) == \E i \in 1..Len(patterns) : patterns[i].id = group_id

PatternsGet(patterns, group_id) ==
    patterns[CHOOSE i \in 1..Len(patterns) : patterns[i].id = group_id].pattern

PatternsPut(patterns, group_id, pattern) ==
    IF PatternsHas(patterns, group_id)
    THEN [patterns EXCEPT ![CHOOSE i \in 1..Len(patterns) : patterns[i].id = group_id] =
             [id |-> group_id, pattern |-> pattern]]
    ELSE Append(patterns, [id |-> group_id, pattern |-> pattern])

\* detect_seasonal_patterns: the patterns of the records with enough dates
\* are written over what the dict holds
RECURSIVE detect_seasonal_patterns(_, _)
detect_seasonal_patterns(frequency, patterns) ==
    IF frequency = <<>> THEN patterns
    ELSE LET rec == Head(frequency)
         IN detect_seasonal_patterns(
                Tail(frequency),
                IF Len(rec.order_dates) < MinSeasonalDates THEN patterns
                ELSE PatternsPut(patterns, rec.group_id, SeasonalPattern(rec)))

(***************************************************************************)
(* Forecast: OrderAnalyzer.predict_future_needs                            *)
(***************************************************************************)
\* article_lead_times: the mean delivery days of an article, as a sequence
\* of [article, days]
TableHas(table, article) == \E i \in 1..Len(table) : table[i].article = article

TableGet(table, article) ==
    table[CHOOSE i \in 1..Len(table) : table[i].article = article].days

\* item_lead_times: the loop reads similar_items_map as group id -> items,
\* while the dict maps a (name, code) tuple to a group id; no tuple is an
\* article of the table and no character of a group id is a tuple, so
\* nothing is ever stored
ItemLeadTimes(sim_map, article_lead_times) == <<>>

\* group_id[4:] for an id that starts with art_, the id itself otherwise
CleanGroupId(group_id) ==
    IF Len(group_id) >= Len(ArtPrefix) /\ SubSeq(group_id, 1, Len(ArtPrefix)) = ArtPrefix
    THEN SubSeq(group_id, Len(ArtPrefix) + 1, Len(group_id))
    ELSE group_id

\* the lead time of the first member whose code is an article of the table
RECURSIVE MemberLeadTime(_, _, _)
MemberLeadTime(items, article_lead_times, default_lead_time_days) ==
    IF items = <<>> THEN default_lead_time_days
    ELSE IF TableHas(article_lead_times, Head(items)[2])
         THEN Ceil(TableGet(article_lead_times, Head(items)[2]))
         ELSE MemberLeadTime(Tail(items), article_lead_times, default_lead_time_days)

\* the lead time of a group (use_individual_lead_time is True)
LeadTime(group_id, items, item_lead_times, article_lead_times, default_lead_time_days) ==
    IF TableHas(item_lead_times, group_id)
    THEN Ceil(TableGet(item_lead_times, group_id))
    ELSE IF TableHas(article_lead_times, CleanGroupId(group_id))
         THEN Ceil(TableGet(article_lead_times, CleanGroupId(group_id)))
         ELSE MemberLeadTime(items, article_lead_times, default_lead_time_days)

\* the quantity of a forecast point after the seasonal correction, in
\* hundredths
AdjustedQuantity(quantity, month, monthly) ==
    LET total == MonthlyTotal(monthly)
    IN IF monthly[month] > 0 THEN RoundHalfEven(quantity * monthly[month] * 12, total)
       ELSE quantity

\* the points of one base row that are not after the analyzer's forecast end
RECURSIVE AdjustedForecast(_, _, _, _, _)
AdjustedForecast(forecast_dates, forecast_end, lead_time, seasonal, monthly) ==
    IF forecast_dates = <<>> THEN <<>>
    ELSE LET f == Head(forecast_dates)
         IN (IF f.date <= forecast_end
             THEN <<[forecast_date |-> f.date,
                     order_date |-> PlusDays(f.date, 0 - lead_time),
                     estimated_quantity |-> IF seasonal
                                            THEN AdjustedQuantity(f.estimated_quantity,
                                                                  MonthOf(f.date), monthly)
                                            ELSE f.estimated_quantity,
                     original_quantity |-> f.estimated_quantity]>>
             ELSE <<>>)
            \o AdjustedForecast(Tail(forecast_dates), forecast_end, lead_time, seasonal, monthly)

RECURSIVE AdjustedPredictions(_, _, _, _, _, _)
AdjustedPredictions(base, patterns, item_lead_times, article_lead_times, default_lead_time_days, forecast_end) ==
    IF base = <<>> THEN <<>>
    ELSE LET row == Head(base)
             lead_time == LeadTime(row.group_id, row.items, item_lead_times,
                                   article_lead_times, default_lead_time_days)
             seasonal == PatternsHas(patterns, row.group_id)
             adjusted_forecast ==
                 AdjustedForecast(row.forecast_dates, forecast_end, lead_time, seasonal,
                                  IF seasonal THEN PatternsGet(patterns, row.group_id).monthly
                                  ELSE <<>>)
         IN (IF adjusted_forecast = <<>> THEN <<>>
             ELSE <<[group_id |-> row.group_id,
                     items |-> row.items,
                     lead_time_days |-> lead_time,
                     forecast |-> adjusted_forecast]>>)
            \o AdjustedPredictions(Tail(base), patterns, item_lead_times, article_lead_times,
                                   default_lead_time_days, forecast_end)

\* predict_future_needs with the clock read as today by the analyzer and as
\* today_dp, not earlier, by the data processor: the patterns it leaves, and
\* the forecast it stores when it returns one
predict_future_needs(frequency, patterns, sim_map, article_lead_times, forecast_days, default_lead_time_days, today, today_dp) ==
    IF frequency = <<>>
    THEN [hung |-> FALSE, returned |-> FALSE, patterns |-> patterns, predictions |-> <<>>]
    ELSE LET detected == IF patterns = <<>> THEN detect_seasonal_patterns(frequency, patterns)
                         ELSE patterns
             base == predict_future_orders(frequency, forecast_days, today_dp)
         IN IF base.hung
            THEN [hung |-> TRUE, returned |-> FALSE, patterns |-> detected, predictions |-> <<>>]
            ELSE IF base.predictions = <<>>
            THEN [hung |-> FALSE, returned |-> FALSE, patterns |-> detected, predictions |-> <<>>]
            ELSE [hung |-> FALSE, returned |-> TRUE, patterns |-> detected,
                  predictions |-> AdjustedPredictions(base.predictions, detected,
                                      ItemLeadTimes(sim_map, article_lead_times),
                                      article_lead_times, default_lead_time_days,
                                      PlusDays(today, forecast_days))]

(***************************************************************************)
(* Recommendations: OrderAnalyzer.generate_order_recommendations           *)
(***************************************************************************)
\* the rows of one forecast row with the window put on the forecast date
UpcomingOrders_by_forecast_date(row, forecasts, today, end_date, rounds) ==
    LET upcoming_orders ==
            SelectSeq(forecasts,
                      LAMBDA f : today <= f.forecast_date /\ f.forecast_date <= end_date)
    IN [i \in 1..Len(upcoming_orders) |->
           [group_id |-> row.group_id,
            item |-> row.items[1],
            similar_items |-> row.items,
            order_date |-> upcoming_orders[i].order_date,
            forecast_date |-> upcoming_orders[i].forecast_date,
            quantity |-> IF rounds
                         THEN Hundredths * RoundHalfEven(upcoming_orders[i].estimated_quantity,
                                                         Hundredths)
                         ELSE upcoming_orders[i].estimated_quantity]]

\* the rows of one forecast row: its points whose order date is in the
\* window, the quantity replaced by round(quantity) when rounds is true
UpcomingOrders(row, forecasts, today, end_date, rounds) ==
    LET upcoming_orders ==
            SelectSeq(forecasts,
                      LAMBDA f : today <= f.order_date /\ f.order_date <= end_date)
    IN [i \in 1..Len(upcoming_orders) |->
           [group_id |-> row.group_id,
            item |-> row.items[1],
            similar_items |-> row.items,
            order_date |-> upcoming_orders[i].order_date,
            forecast_date |-> upcoming_orders[i].forecast_date,
            quantity |-> IF rounds
                         THEN Hundredths * RoundHalfEven(upcoming_orders[i].estimated_quantity,
                                                         Hundredths)
                         ELSE upcoming_orders[i].estimated_quantity]]

\* the rows before they are sorted; a quantity is rounded when the ledger
\* rows found for the members of the group all hold a whole quantity
RECURSIVE RecommendationRows(_, _, _, _)
RecommendationRows(rows, data, today, end_date) ==
    IF rows = <<>> THEN <<>>
    ELSE LET row == Head(rows)
             group_orders == RowsOfItems(data, row.items)
             \* float(qty).is_integer() for every quantity found
             all_integer == \A i \in 1..Len(group_orders) :
                               group_orders[i].qty % QtyPerUnit = 0
             rounds == all_integer /\ Len(group_orders) > 0
         IN UpcomingOrders(row, row.forecast, today, end_date, rounds)
            \o RecommendationRows(Tail(rows), data, today, end_date)

\* sort_values(by='order_date'): the rows by ascending order date, rows of
\* one order date in any order
RECURSIVE SortedByOrderDate(_)
SortedByOrderDate(S) ==
    IF S = {} THEN {<<>>}
    ELSE UNION {{<<r>> \o rest : rest \in SortedByOrderDate(S \ {r})} :
                r \in {e \in S : \A o \in S : e.order_date <= o.order_date}}

\* generate_order_recommendations at the time today: the tables it can
\* return (none for no forecast)
generate_order_recommendations(rows, data, days_ahead, today) ==
    IF rows = <<>> THEN {<<>>}
    ELSE SortedByOrderDate(Range(RecommendationRows(rows, data, today,
                                                    PlusDays(today, days_ahead))))

(***************************************************************************)
(* The forecaster run from the main window                                 *)
(***************************************************************************)
\* the clock advances by at most this many half days
MaxTicks == 1

\* forecast_days: the default of predict_future_needs and of the main window
ForecastDaysArgs == {30, 90}

\* days_ahead: the default of the main window and of
\* generate_order_recommendations
DaysAheadArgs == {30, 90}

\* the ledgers the forecaster is run on, quantities counted in parts of a
\* unit: three requests for one name, a month apart, the later two with any
\* code and quantity; four request dates of one item; two items, one
\* requested every fortnight and one every month; three requests within two
\* days, the first two on one day;
\* whole quantities of an item and a part of a unit requested without a code;
\* two dated requests and one whose date did not parse
ForecastLedgers ==
    LET whole == 10 * QtyPerUnit
        part == QtyPerUnit - 1
        a == <<"a">>
        x == <<"x">>
    IN {<<Row(a, x, Date(2024, 1, 1), whole),
          Row(a, c2, Date(2024, 2, 1), q2),
          Row(a, c3, Date(2024, 3, 1), q3)>> :
           c2 \in {NaN, x, ArtPrefix \o x},
           c3 \in {NaN, x, ArtPrefix \o x},
           q2 \in {whole, part},
           q3 \in {whole, part}}
       \cup {<<Row(a, x, Date(2024, 1, 14), whole),
               Row(a, x, Date(2024, 1, 29), whole),
               Row(a, x, Date(2024, 2, 14), whole),
               Row(a, x, Date(2024, 3, 1), part)>>,
             <<Row(a, x, Date(2024, 1, 1), whole),
               Row(<<"b">>, <<"y">>, Date(2024, 1, 1), whole),
               Row(a, x, Date(2024, 1, 16), whole),
               Row(<<"b">>, <<"y">>, Date(2024, 2, 1), part)>>,
             <<Row(a, x, Date(2024, 2, 28), whole),
               Row(a, x, Timestamp(Date(2024, 2, 28).t + 1), whole),
               Row(a, x, Timestamp(Date(2024, 2, 29).t + 1), whole)>>,
             <<Row(a, x, Date(2024, 1, 1), 5 * QtyPerUnit),
               Row(a, x, Date(2024, 2, 1), whole),
               Row(a, NaN, Date(2024, 2, 1), part),
               Row(a, x, Date(2024, 3, 1), whole)>>,
             <<Row(a, x, Date(2024, 1, 1), whole),
               Row(a, x, Date(2024, 2, 1), whole),
               Row(a, x, NaT, whole)>>}

\* article_delivery_times after parse_delivery_comments: the articles of the
\* ledger that have delivery days with their mean (none, or a day and a
\* half), or every article with the standard 30 days when no row has
\* delivery days; the table stays empty when the ledger has no comment
\* column
DeliveryTables(data) ==
    LET articles == {data[i].code : i \in {j \in 1..Len(data) : ~isna(data[j].code)}}
        order == SeqOfSet(articles)
        Table(known, days) ==
            LET kept == SelectSeq(order, LAMBDA a : a \in known)
            IN [i \in 1..Len(kept) |-> [article |-> kept[i], days |-> days[kept[i]]]]
    IN {Table(known, days) : known \in (SUBSET articles) \ {{}},
                             days \in [articles -> {Rational(0, 1), Rational(3, 2)}]}
       \cup {Table(articles, [a \in articles |-> Rational(30, 1)]), <<>>}

\* predict_future_orders never returned
Hung == op.name = "predict" /\ op.hung

\* OrderAnalyzer.analyze_orders, called with the progress dialog's callback
AnalyzeOrders ==
    /\ ~Hung
    /\ LET r == analyze_order_frequency(processed_data, dp_similar_items_map, TRUE)
       IN /\ frequency_data' = r.frequency
          /\ progress' = <<0>> \o r.progress \o <<100>>
          /\ op' = [name |-> "analyze_orders", ret |-> Len(r.frequency)]
    /\ pre2' = <<>>
    /\ UNCHANGED <<mappings, file, failures, similar_items_map, dp_similar_items_map,
                   processed_data, forecastVars, autofind>>

\* OrderAnalyzer.detect_seasonal_patterns
DetectSeasonalPatterns ==
    /\ ~Hung
    /\ frequency_data # <<>>
    /\ seasonal_patterns' = detect_seasonal_patterns(frequency_data, seasonal_patterns)
    /\ op' = [name |-> "detect"]
    /\ pre2' = <<>>
    /\ UNCHANGED <<mappings, file, failures, similar_items_map, dp_similar_items_map, progress,
                   processed_data, frequency_data, article_delivery_times, predictions,
                   recommendations, now, autofind>>

\* OrderAnalyzer.predict_future_needs; the data processor reads the clock
\* after the analyzer did
PredictFutureNeeds ==
    /\ ~Hung
    /\ \E forecast_days \in ForecastDaysArgs, default_lead_time_days \in {30},
          today_dp \in {now, now + 1} :
          LET r == predict_future_needs(frequency_data, seasonal_patterns, dp_similar_items_map,
                                        article_delivery_times, forecast_days,
                                        default_lead_time_days, now, today_dp)
          IN /\ today_dp <= Date(2024, 3, 1).t + MaxTicks
             /\ seasonal_patterns' = r.patterns
             /\ predictions' = IF r.returned THEN r.predictions ELSE predictions
             /\ now' = today_dp
             /\ op' = [name |-> "predict", hung |-> r.hung, returned |-> r.returned,
                       forecast_days |-> forecast_days,
                       default_lead_time_days |-> default_lead_time_days,
                       today |-> now, today_dp |-> today_dp]
    /\ pre2' = <<>>
    /\ UNCHANGED <<mappings, file, failures, similar_items_map, dp_similar_items_map, progress,
                   processed_data, frequency_data, article_delivery_times, recommendations,
                   autofind>>

\* OrderAnalyzer.generate_order_recommendations
GenerateOrderRecommendations ==
    /\ ~Hung
    /\ \E days_ahead \in DaysAheadArgs :
          /\ recommendations' \in generate_order_recommendations(predictions, processed_data,
                                                                 days_ahead, now)
          /\ op' = [name |-> "recommend", days_ahead |-> days_ahead, today |-> now,
                    returned |-> predictions # <<>>]
    /\ pre2' = <<>>
    /\ UNCHANGED <<mappings, file, failures, similar_items_map, dp_similar_items_map, progress,
                   processed_data, frequency_data, article_delivery_times, seasonal_patterns,
                   predictions, now, autofind>>

\* time passes between two operations
Tick ==
    /\ ~Hung
    /\ now < Date(2024, 3, 1).t + MaxTicks
    /\ now' = now + 1
    /\ UNCHANGED <<mappings, file, failures, similar_items_map, dp_similar_items_map, progress,
                   op, pre2, processed_data, frequency_data, article_delivery_times,
                   seasonal_patterns, predictions, recommendations, autofind>>

\* the main window after its data processing: the ledger is preprocessed,
\* find_similar_items has run on an empty store and parse_delivery_comments
\* has built the delivery table; nothing is analysed yet
InitForecast ==
    /\ mappings = <<>>
    /\ file = load_mappings(NoFile, "ok").file
    /\ failures = 0
    /\ processed_data \in ForecastLedgers
    /\ \E order \in Orders(UniqueItems(processed_data)) :
          similar_items_map = find_similar_items(mappings, processed_data, order,
                                                 DefaultThreshold, FALSE).map
    /\ dp_similar_items_map = similar_items_map
    /\ progress = <<>>
    /\ op = NoOp
    /\ pre2 = <<>>
    /\ frequency_data = <<>>
    /\ article_delivery_times \in DeliveryTables(processed_data)
    /\ seasonal_patterns = <<>>
    /\ predictions = <<>>
    /\ recommendations = <<>>
    /\ now = Date(2024, 3, 1).t
    /\ autofind = [main |-> "idle"]

NextForecast ==
    \/ AnalyzeOrders
    \/ DetectSeasonalPatterns
    \/ PredictFutureNeeds
    \/ GenerateOrderRecommendations
    \/ Tick

SpecForecast == InitForecast /\ [][NextForecast]_vars

(***************************************************************************)
(* The main window with one ledger after another                           *)
(***************************************************************************)
\* the ledgers opened in turn, all of one item: four requests in January,
\* February and March; three requests a month apart; four requests with
\* two of them in February
SeasonLedgers ==
    LET whole == 10 * QtyPerUnit
        a == <<"a">>
        x == <<"x">>
    IN {<<Row(a, x, Date(2024, 1, 14), whole),
          Row(a, x, Date(2024, 1, 29), whole),
          Row(a, x, Date(2024, 2, 14), whole),
          Row(a, x, Date(2024, 3, 1), whole)>>,
        <<Row(a, x, Date(2024, 1, 1), whole),
          Row(a, x, Date(2024, 2, 1), whole),
          Row(a, x, Date(2024, 3, 1), whole)>>,
        <<Row(a, x, Date(2024, 1, 15), whole),
          Row(a, x, Date(2024, 2, 1), whole),
          Row(a, x, Date(2024, 2, 15), whole),
          Row(a, x, Date(2024, 3, 1), whole)>>}

\* _open_file and _process_data: another ledger is loaded and preprocessed,
\* find_similar_items and parse_delivery_comments run on it; the analyzer
\* keeps what it holds
ProcessData ==
    /\ \E data \in SeasonLedgers :
          /\ data # processed_data
          /\ processed_data' = data
          /\ \E order \in Orders(UniqueItems(data)) :
                similar_items_map' = find_similar_items(mappings, data, order,
                                                        DefaultThreshold, FALSE).map
          /\ dp_similar_items_map' = similar_items_map'
          /\ article_delivery_times' \in DeliveryTables(data)
    /\ op' = [name |-> "process"]
    /\ pre2' = <<>>
    /\ UNCHANGED <<mappings, file, failures, progress, frequency_data, seasonal_patterns,
                   predictions, recommendations, now, autofind>>

InitSeason ==
    /\ InitForecast
    /\ processed_data \in SeasonLedgers

NextSeason ==
    \/ ProcessData
    \/ AnalyzeOrders
    \/ DetectSeasonalPatterns
    \/ PredictFutureNeeds

SpecSeason == InitSeason /\ [][NextSeason]_vars

(***************************************************************************)
(* Properties of the similarity store                                      *)
(***************************************************************************)
MutatingOps == {"add", "remove", "rename", "merge", "update"}

\* the members of group g as a set; a group that is absent has none
Members(m, g) == IF Has(m, g) THEN Range(Get(m, g).items) ELSE {}

\* C3: whenever the write of the store file fails during add_item_to_group,
\* remove_item_from_group, rename_group, merge_groups or
\* update_from_similar_items, the operation returns a failure result
\* (False, or 0 added groups) instead of success.
C3_SaveFailureReported ==
    (op.name \in MutatingOps /\ op.saved /\ op.outcome # "ok")
        => IF op.name = "update" THEN op.ret = 0 ELSE op.ret = FALSE

\* C4: a successful add_item_to_group(g, name, code) into a group present in
\* the store, followed by remove_item_from_group(g, name, code) with the same
\* arguments, leaves g with exactly the member set it had before the add,
\* for every pair, an empty code included.
C4_AddRemoveRestores ==
    (op.name = "remove" /\ pre2 # <<>>)
        => Members(mappings, op.gid) = Members(pre2[1], op.gid)

C6_RemoveOneOrFail ==
    [][op'.name = "remove" =>
         LET g == op'.gid
             present == /\ Has(mappings, g)
                        /\ HasItem(Get(mappings, g).items, op'.item[1], op'.item[2])
         IN IF present
            THEN LET old == Get(mappings, g).items
                 IN /\ op'.ret = TRUE
                    /\ \A h \in Keys(mappings) \ {g} :
                          Has(mappings', h) /\ Get(mappings', h) = Get(mappings, h)
                    /\ Keys(mappings') \subseteq Keys(mappings)
                    /\ IF Len(old) = 1 THEN ~Has(mappings', g)
                       ELSE /\ Has(mappings', g)
                            /\ Get(mappings', g).name = Get(mappings, g).name
                            /\ \E i \in 1..Len(old) :
                                  /\ old[i] = Item(op'.item[1], op'.item[2])
                                  /\ Get(mappings', g).items = RemoveAt(old, i)
            ELSE op'.ret = FALSE /\ mappings' = mappings /\ file' = file]_vars

C6_Witness ==
    /\ op.name = "remove"
    /\ op.ret = TRUE
    /\ ~Has(mappings, op.gid)
    /\ mappings # <<>>

C8_PersistedEqualsMemory ==
    /\ (op.name # "init" /\ op.saved /\ op.outcome = "ok")
          => file.state = "ok" /\ load_mappings(file, "ok").mappings = mappings
    /\ (op.name = "load" /\ op.saved) => mappings = <<>>

C8_Witness ==
    /\ op.name = "create"
    /\ op.saved
    /\ op.outcome = "ok"
    /\ Len(mappings) = 2
    /\ \E i \in 1..Len(mappings) : Len(mappings[i].items) = 2

(***************************************************************************)
(* Properties of the resolver                                              *)
(***************************************************************************)
\* the groups of similar_groups that list the pair, counted with repeats
Occurrences(groups, pair) ==
    {<<i, j>> \in (1..Len(groups)) \X (1..(MaxRows + 1)) :
        j <= Len(groups[i].items) /\ groups[i].items[j] = pair}

Assignment(sim_map) == {<<sim_map[i].item, sim_map[i].group>> : i \in 1..Len(sim_map)}

\* C2: two runs of the resolver on the same store, the same input pairs and
\* the same threshold give the same pair-to-group assignment, in whatever
\* order each run enumerates the distinct pairs.
C2_SameAssignmentTwice ==
    [][(op.name = "find" /\ op'.name = "find" /\ mappings' = mappings)
          => Assignment(similar_items_map') = Assignment(similar_items_map)]_vars

\* C9: in a successful run of the resolver with a progress callback the
\* reported percentages are integers in 0..100, never decrease from one call
\* to the next, and the last call reports 100.
C9_ProgressEndsAt100 ==
    (op.name = "find" /\ op.cb /\ processed_data # <<>>)
        => /\ progress # <<>>
           /\ \A i \in 1..Len(progress) : progress[i] \in 0..100
           /\ \A i \in 1..(Len(progress) - 1) : progress[i] <= progress[i + 1]
           /\ progress[Len(progress)] = 100

(***************************************************************************)
(* Properties of the frequency analyzer                                    *)
(***************************************************************************)
\* C10: every frequency record produced by analyze_order_frequency has
\* exactly one interval fewer than it has order dates, its order dates are
\* ascending without repeats, and every interval is a non-negative number
\* of days.
C10_IntervalInvariant ==
    \A k \in 1..Len(frequency_data) :
        LET rec == frequency_data[k]
        IN /\ Len(rec.order_intervals) = Len(rec.order_dates) - 1
           /\ \A i \in 1..Len(rec.order_dates) : ~rec.order_dates[i].nat
           /\ \A i \in 1..(Len(rec.order_dates) - 1) :
                 rec.order_dates[i].t < rec.order_dates[i + 1].t
           /\ \A i \in 1..Len(rec.order_intervals) :
                 ~rec.order_intervals[i].nan /\ rec.order_intervals[i].num >= 0

(***************************************************************************)
(* Properties of the matching rules                                        *)
(***************************************************************************)
\* every stored member with the id of its group, groups and members in the
\* order the store iterates them
RECURSIVE StoredMembers(_)
StoredMembers(m) ==
    IF m = <<>> THEN <<>>
    ELSE [j \in 1..Len(Head(m).items) |->
             [item |-> <<Head(m).items[j].name, Head(m).items[j].code>>, group |-> Head(m).id]]
         \o StoredMembers(Tail(m))

ResolvedBefore(k) == {j \in 1..(k - 1) : MapHas(similar_items_map, op.order[j])}

\* C18: with an empty store, an input pair is assigned the group of the
\* first pair already resolved in the same run whose name equals its name or
\* whose code equals its code, by plain equality, and gets a new group only
\* when no earlier pair has an equal name or an equal code.
C18_ExactNameOrCode ==
    (op.name = "resolve" /\ mappings = <<>>) =>
        \A k \in 1..Len(op.order) :
            LET pair == op.order[k]
                equal == {j \in ResolvedBefore(k) :
                             \/ pair[1] = op.order[j][1]
                             \/ pair[2] = op.order[j][2]}
                first == CHOOSE j \in equal : \A h \in equal : j <= h
            IN IF equal # {}
               THEN /\ MapHas(similar_items_map, pair)
                    /\ MapGet(similar_items_map, pair) = MapGet(similar_items_map, op.order[first])
               ELSE MapHas(similar_items_map, pair)
                       => MapGet(similar_items_map, pair) = new_group_id(pair[1], pair[2])

\* C18 as amended: with an empty store, an input pair is assigned the group
\* of the first pair already resolved in the same run whose name is equal
\* and not empty or whose code is equal and not empty; when there is none
\* it gets a newly derived group id if its name or code is not blank, and
\* no group otherwise.
C18_ExactNonEmptyNameOrCode ==
    (op.name = "resolve" /\ mappings = <<>>) =>
        \A k \in 1..Len(op.order) :
            LET pair == op.order[k]
                equal == {j \in ResolvedBefore(k) :
                             \/ pair[1] # <<>> /\ pair[1] = op.order[j][1]
                             \/ pair[2] # <<>> /\ pair[2] = op.order[j][2]}
                first == CHOOSE j \in equal : \A h \in equal : j <= h
            IN IF equal # {}
               THEN /\ MapHas(similar_items_map, pair)
                    /\ MapGet(similar_items_map, pair) = MapGet(similar_items_map, op.order[first])
               ELSE IF strip(pair[1]) # <<>> \/ strip(pair[2]) # <<>>
               THEN /\ MapHas(similar_items_map, pair)
                    /\ MapGet(similar_items_map, pair) = new_group_id(pair[1], pair[2])
               ELSE ~MapHas(similar_items_map, pair)

\* a run on the empty store whose third pair shares its name with the first
\* pair and its code with the second, and went to the group of the first
C18_Witness ==
    /\ op.name = "resolve"
    /\ mappings = <<>>
    /\ Len(op.order) = 3
    /\ op.order[3][1] = op.order[1][1] /\ op.order[3][1] # <<>>
    /\ op.order[3][2] = op.order[2][2] /\ op.order[3][2] # <<>>
    /\ MapGet(similar_items_map, op.order[1]) # MapGet(similar_items_map, op.order[2])
    /\ MapGet(similar_items_map, op.order[3]) = MapGet(similar_items_map, op.order[1])

\* the k-th pair of the enumeration matched nothing: it is not blank, and
\* no stored member equals it or reaches the threshold (non-empty store),
\* or no pair resolved before it has its non-empty name or code (empty store)
Unmatched(k) ==
    LET pair == op.order[k]
        known == StoredMembers(mappings)
    IN /\ strip(pair[1]) # <<>> \/ strip(pair[2]) # <<>>
       /\ IF mappings # <<>>
          THEN \A i \in 1..Len(known) :
                  /\ known[i].item # pair
                  /\ similarity10(pair, known[i].item) < 10 * op.threshold
          ELSE \A j \in ResolvedBefore(k) :
                  /\ ~(pair[1] # <<>> /\ pair[1] = op.order[j][1])
                  /\ ~(pair[2] # <<>> /\ pair[2] = op.order[j][2])

\* C19: the group id synthesized for an unmatched pair ("art_" + code, else
\* "name_" + the first 10 alphanumeric characters of the name) is the id of
\* no pair resolved before it in the run, so that it seeds a singleton group
\* and two different unmatched pairs never receive the same id.
C19_DerivedIdsDistinct ==
    op.name = "resolve" =>
        \A k \in 1..Len(op.order) :
            Unmatched(k) =>
                /\ MapHas(similar_items_map, op.order[k])
                /\ \A j \in ResolvedBefore(k) :
                      MapGet(similar_items_map, op.order[j]) # MapGet(similar_items_map, op.order[k])

(***************************************************************************)
(* Properties of the group histories                                       *)
(***************************************************************************)
\* the ledger rows whose (name, code), a missing value read as the empty
\* text, is one of the items
RowsOfMembers(data, items) ==
    LET IsMember(row) == \E i \in 1..Len(items) :
                            items[i] = <<Coerce(row.name), Coerce(row.code)>>
    IN SelectSeq(data, IsMember)

\* C20: the order dates and total_ordered of every frequency record are
\* those of all the ledger rows whose (name, code), missing values read as
\* the empty text as the resolver reads them, equals a member of the group:
\* no row of a resolved item is left out of the history of its group.
C20_HistoryHasEveryRow ==
    \A k \in 1..Len(frequency_data) :
        LET rec == frequency_data[k]
            rows == RowsOfMembers(processed_data, rec.items)
        IN /\ rec.total_ordered = SumQty(rows)
           /\ rec.order_dates = UniqueDates(rows)

(***************************************************************************)
(* Properties of the forecast                                              *)
(***************************************************************************)
\* the forecast held is the one the last predict_future_needs returned
ForecastReturned == op.name = "predict" /\ op.returned

\* C11: in the forecast returned by predict_future_needs the forecast dates
\* of every group are strictly increasing, each is strictly after today, and
\* none is later than today + forecast_days
C11_ForecastDatesInHorizon ==
    ForecastReturned =>
        \A k \in 1..Len(predictions) :
            LET forecast == predictions[k].forecast
            IN \A i \in 1..Len(forecast) :
                  /\ forecast[i].forecast_date > op.today
                  /\ forecast[i].forecast_date <= PlusDays(op.today, op.forecast_days)
                  /\ i < Len(forecast) =>
                        forecast[i].forecast_date < forecast[i + 1].forecast_date

\* a forecast with several dates for a group whose rhythm, continued from
\* its last request, passes dates that are not after today
C11_Witness ==
    /\ ForecastReturned
    /\ \E k \in 1..Len(predictions), j \in 1..Len(frequency_data) :
          /\ Len(predictions[k].forecast) >= 2
          /\ frequency_data[j].group_id = predictions[k].group_id
          /\ PlusDays(frequency_data[j].order_dates[Len(frequency_data[j].order_dates)].t,
                      IntervalStep(frequency_data[j])) <= op.today

(***************************************************************************)
(* Properties of the recommendations                                       *)
(***************************************************************************)
\* the forecast points, as <<row, point>> index pairs
ForecastPoints ==
    UNION {{<<k, i>> : i \in 1..Len(predictions[k].forecast)} : k \in 1..Len(predictions)}

\* the order date of the point is in the window of the last recommendation
InWindow(p) ==
    LET f == predictions[p[1]].forecast[p[2]]
    IN op.today <= f.order_date /\ f.order_date <= PlusDays(op.today, op.days_ahead)

\* the recommendation rows made from a forecast point
RowsOfPoint(p) ==
    LET f == predictions[p[1]].forecast[p[2]]
    IN {j \in 1..Len(recommendations) :
           /\ recommendations[j].group_id = predictions[p[1]].group_id
           /\ recommendations[j].forecast_date = f.forecast_date
           /\ recommendations[j].order_date = f.order_date}

\* C12: generate_order_recommendations returns exactly one row for each
\* forecast point whose order date is in [today, today + days_ahead] and no
\* row for any other point; a group without a point in the window has no row
C12_OneRowPerPointInWindow ==
    op.name = "recommend" =>
        /\ \A p \in ForecastPoints :
               Cardinality(RowsOfPoint(p)) = IF InWindow(p) THEN 1 ELSE 0
        /\ Len(recommendations) = Cardinality({p \in ForecastPoints : InWindow(p)})

\* a recommendation with a row, made from a forecast one of whose points is
\* needed within the window but had to be ordered before today, and one of
\* whose groups has no point in the window
C12_Witness ==
    /\ op.name = "recommend"
    /\ recommendations # <<>>
    /\ \E p \in ForecastPoints :
          LET f == predictions[p[1]].forecast[p[2]]
          IN /\ f.order_date < op.today
             /\ op.today <= f.forecast_date
             /\ f.forecast_date <= PlusDays(op.today, op.days_ahead)
    /\ \E k \in 1..Len(predictions) :
          \A p \in ForecastPoints : p[1] = k => ~InWindow(p)

\* the forecast points a recommendation row can have been made from
PointsOfRow(j) ==
    {p \in ForecastPoints :
        /\ predictions[p[1]].group_id = recommendations[j].group_id
        /\ predictions[p[1]].forecast[p[2]].forecast_date = recommendations[j].forecast_date}

\* C13: when every ledger quantity of the members of a group is a whole
\* number, each recommended quantity of the group is the forecast quantity
\* rounded to the nearest integer; when some quantity is fractional, it is
\* the estimated quantity of the forecast unchanged
C13_RoundedIffHistoryWhole ==
    op.name = "recommend" =>
        \A j \in 1..Len(recommendations) : \A p \in PointsOfRow(j) :
            LET row == recommendations[j]
                estimated == predictions[p[1]].forecast[p[2]].estimated_quantity
                history == RowsOfMembers(processed_data, row.similar_items)
            IN IF \A i \in 1..Len(history) : history[i].qty % QtyPerUnit = 0
               THEN /\ row.quantity % Hundredths = 0
                    /\ 2 * (row.quantity - estimated) <= Hundredths
                    /\ 2 * (estimated - row.quantity) <= Hundredths
               ELSE row.quantity = estimated

(***************************************************************************)
(* The worked example of the forecast                                      *)
(***************************************************************************)
\* one item requested with quantity 10 on 2024-01-01, 2024-02-01 and
\* 2024-03-01
ExampleLedger ==
    <<Row(<<"a">>, <<"x">>, Date(2024, 1, 1), 10 * QtyPerUnit),
      Row(<<"a">>, <<"x">>, Date(2024, 2, 1), 10 * QtyPerUnit),
      Row(<<"a">>, <<"x">>, Date(2024, 3, 1), 10 * QtyPerUnit)>>

\* the forecast held was made for 90 days on 2024-03-01
ExampleForecast ==
    /\ processed_data = ExampleLedger
    /\ ForecastReturned
    /\ op.forecast_days = 90
    /\ op.today \div HalfDaysPerDay = Date(2024, 3, 1).t \div HalfDaysPerDay

\* C14 as stated: for the example ledger the frequency record has
\* avg_interval_days = 31 and daily_consumption of about 10/59, and the
\* forecast for 90 days made on 2024-03-01 has exactly 2 points, about
\* 2024-04-01 and 2024-05-02, each with an unadjusted quantity of about 310
C14_ExampleAsStated ==
    /\ (processed_data = ExampleLedger /\ frequency_data # <<>>) =>
          LET rec == frequency_data[1]
              unit == 10 * QtyPerUnit * rec.daily_consumption.den
              diff == 59 * rec.daily_consumption.num - unit
          IN /\ Len(frequency_data) = 1
             /\ rec.avg_interval_days.num = 31 * rec.avg_interval_days.den
             /\ 20 * diff <= unit
             /\ 20 * (0 - diff) <= unit
    /\ ExampleForecast =>
          /\ Len(predictions) = 1
          /\ Len(predictions[1].forecast) = 2
          /\ \A i \in 1..2 :
                LET f == predictions[1].forecast[i]
                    about == IF i = 1 THEN Date(2024, 4, 1).t ELSE Date(2024, 5, 2).t
                IN /\ f.forecast_date >= PlusDays(about, 0 - 1)
                   /\ f.forecast_date <= PlusDays(about, 1)
                   /\ f.original_quantity >= 309 * Hundredths
                   /\ f.original_quantity <= 311 * Hundredths

\* C14 as computed: for the example ledger the frequency record has
\* avg_interval_days = 30 (the intervals are 31 and 29 days) and
\* daily_consumption = 30 / 60 = 0.5, and the forecast for 90 days made on
\* 2024-03-01 has exactly 3 points, 2024-03-31, 2024-04-30 and 2024-05-30,
\* each with the unadjusted quantity 15
C14_ExampleAsComputed ==
    /\ (processed_data = ExampleLedger /\ frequency_data # <<>>) =>
          LET rec == frequency_data[1]
          IN /\ Len(frequency_data) = 1
             /\ rec.avg_interval_days.num = 30 * rec.avg_interval_days.den
             /\ rec.order_intervals = <<Rational(31, 1), Rational(29, 1)>>
             /\ 2 * rec.daily_consumption.num = QtyPerUnit * rec.daily_consumption.den
    /\ ExampleForecast =>
          /\ Len(predictions) = 1
          /\ [i \in 1..Len(predictions[1].forecast) |->
                 predictions[1].forecast[i].forecast_date]
             = <<Date(2024, 3, 31).t, Date(2024, 4, 30).t, Date(2024, 5, 30).t>>
          /\ \A i \in 1..Len(predictions[1].forecast) :
                predictions[1].forecast[i].original_quantity = 15 * Hundredths

\* the example ledger analysed and forecast for 90 days on 2024-03-01
C14_Witness ==
    /\ ExampleForecast
    /\ frequency_data # <<>>
    /\ Len(predictions[1].forecast) = 3

(***************************************************************************)
(* Properties of the lead times                                            *)
(***************************************************************************)
\* C15: the lead time of a forecast group is given by the first rule that
\* applies: (1) the group id is an article of the lead-time table, (2) the
\* group id without its art_ prefix is one, (3) the code of a member is one,
\* (4) the default of the caller; when both the group id and the stripped id
\* are articles of the table, the value of the group id is used
C15_LeadTimeRuleOrder ==
    ForecastReturned =>
        \A k \in 1..Len(predictions) :
            LET row == predictions[k]
                table == article_delivery_times
                keyed == {i \in 1..Len(row.items) : TableHas(table, row.items[i][2])}
            IN IF TableHas(table, row.group_id)
               THEN row.lead_time_days = Ceil(TableGet(table, row.group_id))
               ELSE IF TableHas(table, CleanGroupId(row.group_id))
               THEN row.lead_time_days = Ceil(TableGet(table, CleanGroupId(row.group_id)))
               ELSE IF keyed # {}
               THEN \E i \in keyed :
                       row.lead_time_days = Ceil(TableGet(table, row.items[i][2]))
               ELSE row.lead_time_days = op.default_lead_time_days

\* the lead time of the forecast row is a value of the lead-time table
\* rounded up to whole days, or the default of the caller
ResolvedLeadTime(row) ==
    \/ row.lead_time_days = op.default_lead_time_days
    \/ \E i \in 1..Len(article_delivery_times) :
          LET days == article_delivery_times[i].days
          IN /\ row.lead_time_days * days.den >= days.num
             /\ (row.lead_time_days - 1) * days.den < days.num

\* every point of the forecast row is to be ordered lead_time_days before
\* its forecast date
OrderedAhead(row) ==
    \A i \in 1..Len(row.forecast) :
        row.forecast[i].order_date = PlusDays(row.forecast[i].forecast_date,
                                              0 - row.lead_time_days)

\* C16 as stated: every forecast record returned by predict_future_needs has
\* a lead_time_days that is a positive whole number of days, the resolved
\* lead time rounded up, and every point of it has
\* order_date = forecast_date - lead_time_days
C16_PositiveLeadTime ==
    ForecastReturned =>
        \A k \in 1..Len(predictions) :
            /\ predictions[k].lead_time_days \in Nat
            /\ predictions[k].lead_time_days > 0
            /\ ResolvedLeadTime(predictions[k])
            /\ OrderedAhead(predictions[k])

\* C16 as computed: lead_time_days is a whole number of days that is not
\* negative, a value of the lead-time table rounded up or the default of the
\* caller, and every point has order_date = forecast_date - lead_time_days
C16_NonNegativeLeadTime ==
    ForecastReturned =>
        \A k \in 1..Len(predictions) :
            /\ predictions[k].lead_time_days \in Nat
            /\ ResolvedLeadTime(predictions[k])
            /\ OrderedAhead(predictions[k])

\* a forecast whose lead time is a day and a half of the table rounded up to
\* two days
C16_Witness ==
    /\ ForecastReturned
    /\ \E k \in 1..Len(predictions) :
          /\ predictions[k].lead_time_days = 2
          /\ predictions[k].forecast # <<>>
          /\ \E i \in 1..Len(article_delivery_times) :
                /\ article_delivery_times[i].days = Rational(3, 2)
                /\ article_delivery_times[i].article = CleanGroupId(predictions[k].group_id)

(***************************************************************************)
(* Properties of the consumption figures                                   *)
(***************************************************************************)
\* the distinct dates of a sequence of timestamps, missing dates left out
ParsedDates(dates) == {dates[i].t : i \in {j \in 1..Len(dates) : ~dates[j].nat}}

\* the whole days from the first to the last of a non-empty set of dates
SpanDays(S) ==
    ((CHOOSE d \in S : \A e \in S : e <= d) - (CHOOSE d \in S : \A e \in S : d <= e))
        \div HalfDaysPerDay

\* C21: daily_consumption of a frequency record is total_ordered divided by
\* the days from its first to its last order date when that span is
\* positive and 0 when the span is 0; a record has at least 2 distinct order
\* dates; no group whose daily_consumption or avg_interval_days is not
\* positive has a forecast record
C21_ConsumptionOverSpan ==
    /\ \A k \in 1..Len(frequency_data) :
          LET rec == frequency_data[k]
              dates == ParsedDates(rec.order_dates)
          IN /\ Cardinality(dates) >= 2
             /\ ~rec.daily_consumption.nan
             /\ IF SpanDays(dates) > 0
                THEN rec.daily_consumption.num * SpanDays(dates)
                     = rec.total_ordered * rec.daily_consumption.den
                ELSE rec.daily_consumption.num = 0
    /\ ForecastReturned =>
          \A k \in 1..Len(predictions) : \E j \in 1..Len(frequency_data) :
              LET rec == frequency_data[j]
              IN /\ rec.group_id = predictions[k].group_id
                 /\ ~rec.daily_consumption.nan /\ rec.daily_consumption.num > 0
                 /\ ~rec.avg_interval_days.nan /\ rec.avg_interval_days.num > 0

(***************************************************************************)
(* Properties of the forecast dates                                        *)
(***************************************************************************)
\* the dates last + k * step days, k = 1, 2, ..., that are after today and
\* not after today + forecast_days
CandidateDates(last, step, today) ==
    LET horizon == PlusDays(today, op.forecast_days)
    IN IF step <= 0 THEN {}
       ELSE {d \in {PlusDays(last, k * step) :
                       k \in 1..((horizon - last) \div (step * HalfDaysPerDay) + 1)} :
               d > today /\ d <= horizon}

\* C22: for every group with positive avg_interval_days and positive
\* daily_consumption the forecast has a point for exactly the dates
\* last_order_date + k * round(avg_interval_days), k = 1, 2, ..., that are
\* strictly after today and not after today + forecast_days, each with the
\* estimated quantity daily_consumption * avg_interval_days
C22_StepIsRoundedInterval ==
    ForecastReturned =>
        \A j \in 1..Len(frequency_data) :
            LET rec == frequency_data[j]
                avg == rec.avg_interval_days
                dc == rec.daily_consumption
                last == rec.order_dates[Len(rec.order_dates)].t
                rows == {k \in 1..Len(predictions) : predictions[k].group_id = rec.group_id}
                emitted == UNION {{predictions[k].forecast[i].forecast_date :
                                      i \in 1..Len(predictions[k].forecast)} : k \in rows}
                quantities == UNION {{predictions[k].forecast[i].original_quantity :
                                         i \in 1..Len(predictions[k].forecast)} : k \in rows}
            IN ~SkipsRecord(rec) =>
                  /\ \/ emitted = CandidateDates(last, RoundHalfEven(avg.num, avg.den), op.today)
                     \/ emitted = CandidateDates(last, RoundHalfEven(avg.num, avg.den),
                                                 op.today_dp)
                  /\ \A q \in quantities :
                        LET num == Hundredths * dc.num * avg.num
                            den == dc.den * avg.den * QtyPerUnit
                        IN /\ 2 * (q * den - num) <= den
                           /\ 2 * (num - q * den) <= den


(***************************************************************************)
(* Properties of a failing pair                                            *)
(***************************************************************************)
\* the pairs that similar_items_map assigns to a group
Assigned(sim_map) == {sim_map[i].item : i \in 1..Len(sim_map)}

MembersById(m) == UNION {{<<m[i].id, x>> : x \in Range(m[i].items)} : i \in 1..Len(m)}

\* C24: update_from_similar_items never removes a member from the store:
\* every (group id, member) stored before the call is stored under the same
\* group id after it.
C24_UpdateKeepsMembers ==
    [][op'.name = "update" => MembersById(mappings) \subseteq MembersById(mappings')]_vars

\* C25: a successful merge_groups call never loses a member pair: every
\* (name, code) pair stored in some group before the call is stored in some
\* group after it, also when the source id equals the target id.
C25_MergeKeepsPairs ==
    [][(op'.name = "merge" /\ op'.ret = TRUE) =>
          {x[2] : x \in MembersById(mappings)} \subseteq {x[2] : x \in MembersById(mappings')}]_vars

(***************************************************************************)
(* Termination of the forecast                                             *)
(***************************************************************************)
\* C26: predict_future_orders terminates for every frequency record with a
\* positive average interval and a positive daily consumption, also when the
\* average interval is below one day: the loop reaches the forecast horizon.
C26_ForecastLoopEnds ==
    op.name = "predict" =>
        \/ ~op.hung
        \/ \A j \in 1..Len(frequency_data) : SkipsRecord(frequency_data[j])

(***************************************************************************)
(* Properties of the seasonal adjustment                                   *)
(***************************************************************************)
\* C27: after any sequence of analyze_orders, detect_seasonal_patterns and
\* predict_future_needs calls, the seasonal profile applied to a group is the
\* month tally of the group's order dates in the current frequency data, and
\* a group whose current record has fewer than 4 order dates is forecast
\* without seasonal adjustment.
C27_ProfileOfCurrentDates ==
    ForecastReturned =>
        \A k \in 1..Len(predictions) :
            \A j \in 1..Len(frequency_data) :
                LET row == predictions[k]
                    rec == frequency_data[j]
                IN rec.group_id = row.group_id =>
                     \A i \in 1..Len(row.forecast) :
                         LET f == row.forecast[i]
                         IN \/ f.estimated_quantity = f.original_quantity
                            \/ /\ Len(rec.order_dates) >= MinSeasonalDates
                               /\ f.estimated_quantity =
                                     AdjustedQuantity(f.original_quantity, MonthOf(f.forecast_date),
                                                      SeasonalPattern(rec).monthly)

(***************************************************************************)
(* The resolver against the store's lookup                                 *)
(***************************************************************************)
\* C28: the group the resolver assigns to an input pair that exactly equals
\* a stored member is the group that get_group_for_item returns for the
\* pair, also when the pair has been added to more than one group.
C28_ResolverAgreesWithLookup ==
    op.name = "resolve" =>
        \A pair \in UniqueItems(processed_data) :
            get_group_for_item(mappings, pair[1], pair[2]) # <<>> =>
                /\ MapHas(similar_items_map, pair)
                /\ <<MapGet(similar_items_map, pair)>>
                      = get_group_for_item(mappings, pair[1], pair[2])

\* C29: after any sequence of store operations (add, remove, rename, merge,
\* update_from_similar_items, the editor's create-group and delete-group)
\* no group in the store has an empty member list.
C29_NoEmptyGroup ==
    \A i \in 1..Len(mappings) : mappings[i].items # <<>>

(***************************************************************************)
(* The search thread and the progress dialog                               *)
(***************************************************************************)
\* C30: in the editor's auto-find the main thread reads the search result
\* only after the worker thread has stored it: in every interleaving of the
\* worker, the scheduled dialog-close callback and a user closing the
\* progress dialog, the wait on the dialog does not return before the worker
\* has written its result or error.
C30_WaitReturnsAfterResult ==
    autofind.main = "finished" => autofind.returned_at # "running"

====
